---- MODULE Spec2Model ----
(***************************************************************************)
(* The conversation graph of the Adam setup agent: one turn of             *)
(* process_message is a sequential pass through the nodes wired in         *)
(* graph_init, with the generate/execute retry loop, the result validator, *)
(* the result normalizer and the persistence of the turn.                  *)
(*                                                                         *)
(* The language model, the data store and the upload service are boundary  *)
(* calls: every such call is a nondeterministic choice over the replies    *)
(* that the calling code distinguishes.                                    *)
(*                                                                         *)
(* The specifications share the variables: Spec is the graph and the       *)
(* persistence of turns, KeyedSpec the long-term-memory store and the      *)
(* advertiser cache called under several (user, partner) identities, and   *)
(* DetSpec one call of an anomaly detection tool on bounded tables,        *)
(* PredSpec one call of a check predicate on a row of cells, NormSpec one  *)
(* call of the result normalizer on a table of a given shape or on a       *)
(* mapping or list, EvalSpec the evaluation service under concurrent       *)
(* requests, ConvSpec the conversation store behind the chat routes with   *)
(* its background saves, and RunnerSpec concurrent runs of the anomaly     *)
(* detection node over its module globals.                                 *)
(***************************************************************************)
EXTENDS Integers, Sequences, FiniteSets, TLC

\* ------------------------------------------------------------------ bounds
\* Number of supersteps the graph driver runs before it gives up on a turn
\* with a recursion error (the driver's step budget).
MaxSupersteps == 18
\* Largest number of rows of a table returned by generated code.
MaxRows == 1
\* Largest number of persisted turns the store model keeps counting.
MaxStored == 2

\* --------------------------------------------------------------- constants
\* routes.py: max_retries = state.get("max_retries", 2); no code sets the key.
DefaultMaxRetries == 2

None == "None"

\* The six fixed categories of classify_intent_agent.
IntentCategories ==
    {"targeting_check", "budget_check", "quality_check", "other_check",
     "dsp_support", "anomaly_det_run"}

\* Python truthiness of an optional string.
Truthy(s) == s \notin {None, ""}

\* ------------------------------------------------------------ result values
\* A value that can sit in state["result"]: its Python type, and for a
\* DataFrame its column names, row count and the first cell of an "error"
\* column; for a dict/list whether all members are DataFrames.
Value(t, cols, n, err, mem) ==
    [type |-> t, columns |-> cols, nrows |-> n, error |-> err, members |-> mem]

NoneValue == Value("NoneType", {}, 0, "", "na")
DataFrame(cols, n, err) == Value("DataFrame", cols, n, err, "na")
Collection(t, mem) == Value(t, {}, 0, "", mem)
StrValue == Value("str", {}, 0, "", "na")

\* exec_code_tool: the two error markers it builds itself.
FileNotFoundText == "Some error when reading the data. I can retry if you want."
ExecutionErrorText == "Execution Error: traceback. I can retry if you want."
GeneratedErrorText == "text written by the generated code"

\* What a generated main(Line_Items, Campaigns, Insertion_orders) can return.
MainReturns ==
    { DataFrame({"value"}, n, "") : n \in 0..MaxRows }
    \cup { DataFrame({"error"}, n, e) :
             n \in 0..MaxRows, e \in {GeneratedErrorText, ""} }
    \cup { DataFrame({"error", "value"}, 1, GeneratedErrorText) }
    \cup { Collection(t, m) : t \in {"dict", "list"},
                              m \in {"empty", "frames", "mixed"} }
    \cup { StrValue, NoneValue }

\* The ways one run of exec_code_tool can go; the generated code may also
\* loop for ever, and then the call does not return.
ToolOutcomes ==
    { [kind |-> k, value |-> NoneValue] :
        k \in {"file_not_found", "raises", "no_main", "never_returns"} }
    \cup { [kind |-> "returns", value |-> v] : v \in MainReturns }

\* exec_code_tool(code, config): the value it hands back to exec_code_node.
exec_code_tool(outcome) ==
    CASE outcome.kind = "file_not_found" ->
           DataFrame({"error"}, 1, FileNotFoundText)
      [] outcome.kind = "raises" ->
           DataFrame({"error"}, 1, ExecutionErrorText)
      [] outcome.kind = "no_main" -> StrValue
      [] OTHER -> outcome.value

\* ------------------------------------------------------------------- state
VARIABLES
    pc,            \* position of the turn: "idle", a node name, "END", "raised"
    state,         \* the SystemState threaded through the nodes
    use_memory,    \* config["configurable"]["use_memory"] of the turn
    steps,         \* supersteps taken by the graph driver in this turn
    store,         \* persisted conversation: turn count and latest metadata
    pending,       \* background saves scheduled and not yet run
    response,      \* what process_message gave the caller for the last turn
    gen_calls,     \* history: code_generator invocations of this turn
    failed_attempts, \* history: exec_code visits that left execution_error set
    tool_failures, \* history: exec_code_tool runs that returned an error marker
    last_outcome,  \* history: how the last exec_code_tool run went
    last_upload,   \* history: how the upload made by summarize_result went
    visited,       \* history: nodes visited in this turn
    seen_in_analysis, \* history: the persisted in_analysis flag as it stood
                      \* when memory_agent loaded the conversation
    prev_mid_analysis, \* history: the previous turn ended in agent_analyser
                       \* with in_analysis = True
    preferences,   \* long-term memory as stored, by storage key
    caches,        \* AdvertiserCache._caches, by cache key
    returned,      \* the last value one of the two stores handed to a caller
    det_input,     \* one call of a detection tool: entity, tables, arguments
    det_result,    \* what run_selective_*_detection did for that call
    det_output,    \* what the detect_*_anomalies tool handed back
    pred_input,    \* one call of a check predicate: its name and the row
    pred_result,   \* what that predicate did: a pair, or an exception
    norm_input,    \* one table handed to the result normalizer
    norm_result,   \* the model the normalizer built for it, and the upload
    norm_members,  \* one mapping or list handed to the result normalizer
    norm_summary,  \* the model the normalizer built for that collection
    eval_status,   \* evaluation_state.status, the one row of the table
    eval_pc,       \* each /evaluation/run request: where it and its thread are
    USE_POSTGRES_STORAGE, \* which conversation store this deployment uses
    conversations, \* the saved message batches of each (user, partner)
    chat,          \* each /chat/message request: its turn and its save task
    conv_cleared,  \* history: identities reset and not processed since
    _campaigns_df, \* the module globals of anomaly_det_runner_agent.py: whose
    _line_items_df,       \* tables they hold, None when cleared
    _insertion_orders_df,
    runner         \* each concurrent run of anomaly_det_runner_agent

graph_vars == <<pc, state, use_memory, steps, store, pending, response,
                gen_calls, failed_attempts, tool_failures, last_outcome,
                last_upload,
                visited, seen_in_analysis, prev_mid_analysis>>

keyed_vars == <<preferences, caches, returned>>

\* State of the components that are used outside a graph run.
det_vars == <<det_input, det_result, det_output>>

pred_vars == <<pred_input, pred_result>>

norm_vars == <<norm_input, norm_result, norm_members, norm_summary>>

call_vars == <<pred_vars, norm_vars>>

\* The evaluation service.
eval_vars == <<eval_status, eval_pc>>

\* The conversation store behind the chat routes.
conv_vars == <<USE_POSTGRES_STORAGE, conversations, chat, conv_cleared>>

\* The tables shared by the anomaly detection tools.
glob_vars == <<_campaigns_df, _line_items_df, _insertion_orders_df, runner>>

side_vars == <<eval_vars, conv_vars, glob_vars>>

offgraph_vars == <<keyed_vars, det_vars, call_vars, side_vars>>

vars == <<graph_vars, offgraph_vars>>

history == <<gen_calls, failed_attempts, tool_failures, last_outcome,
             last_upload,
             seen_in_analysis>>

Message(t, c) == [type |-> t, content |-> c]

\* chat.py: graph.astream({"messages": [human_message], "metadata": ...}).
\* Keys the dict does not carry read as None / the .get default.
FreshState ==
    [ messages |-> << Message("human", "text") >>,
      internal_messages |-> 0,
      chat_history |-> 0,
      intent_category |-> None,
      cleared_intent |-> None,
      instruction_block |-> None,
      in_analysis |-> None,
      in_dsp |-> None,
      in_anomaly_det_run |-> None,
      code_gen_agent_breafing_ready |-> None,
      anomaly_detection_completed |-> None,
      code |-> None,
      result |-> NoneValue,
      execution_error |-> None,
      retry_count |-> 0,
      processed_result |-> None,
      download_links |-> 0 ]

Nodes ==
    {"memory_agent", "entry_router", "classify_intent", "retrieve_instruction",
     "dsp_agent", "anomaly_det_runner_agent", "agent_analyser",
     "code_generator", "exec_code", "capture_result", "summarize_result",
     "final_response"}

\* ------------------------------------------------------ anomaly detection
\* Largest number of rows of an entity table given to a detection tool.
MaxTableRows == 2

\* Largest number of identifiers in a requested list of checks.
MaxRequested == 2

Entities == {"campaign", "line_item", "insertion_order"}

Names == {"A", "B"}

CAMPAIGN_CHECK_TYPES == <<"goal", "kpi", "frequency">>

LINE_ITEM_CHECK_TYPES ==
    <<"safeguards", "inventory", "markup", "naming", "naming_setup">>

INSERTION_ORDER_CHECK_TYPES ==
    <<"naming_kpi", "kpi_objective", "kpi_optimization", "cpm_capping",
      "naming">>

Range(seq) == {seq[i] : i \in 1..Len(seq)}

\* The identifiers with a per-row check function, per entity.
PerRowChecks(entity) ==
    CASE entity = "campaign" -> {"goal", "kpi", "frequency"}
      [] entity = "line_item" -> {"safeguards", "inventory", "markup"}
      [] OTHER -> {"naming_kpi", "kpi_objective", "kpi_optimization",
                   "cpm_capping"}

\* The check that can raise on a row and the others that can flag a row, in
\* the tables drawn below; every other check finds every row normal.
RaisingCheck(entity) ==
    CASE entity = "campaign" -> "goal"
      [] entity = "line_item" -> "safeguards"
      [] OTHER -> "naming_kpi"

FlaggingChecks(entity) ==
    CASE entity = "campaign" -> {"goal", "kpi"}
      [] entity = "line_item" -> {"safeguards", "inventory"}
      [] OTHER -> {"naming_kpi", "kpi_objective"}

\* A row of an entity table, by what the check functions do on it.
Rows(entity) ==
    { row \in [Name : Names,
               abnormal : SUBSET FlaggingChecks(entity),
               raising : {{}, {RaisingCheck(entity)}}] :
        row.abnormal \cap row.raising = {} }

SeqsUpTo(S, n) == UNION { [1..k -> S] : k \in 0..n }

\* A requested list may hold identifiers that no entity defines.
RequestIds(entity) ==
    (CASE entity = "campaign" -> Range(CAMPAIGN_CHECK_TYPES)
       [] entity = "line_item" -> Range(LINE_ITEM_CHECK_TYPES)
       [] OTHER -> Range(INSERTION_ORDER_CHECK_TYPES)) \cup {"bogus"}

\* What a batched naming check hands back: a mapping from names to one
\* description (of one or two issues), or an exception.
BatchResults ==
    { [raises |-> FALSE, keys |-> {}, issues |-> 1],
      [raises |-> FALSE, keys |-> {"A"}, issues |-> 1],
      [raises |-> FALSE, keys |-> {"A"}, issues |-> 2],
      [raises |-> TRUE, keys |-> {}, issues |-> 1] }

NoBatch == [raises |-> FALSE, keys |-> {}, issues |-> 1]

\* The arguments each tool takes besides the requested list.
NamingConventions(entity) ==
    IF entity = "campaign" THEN {None} ELSE {None, "given"}

ExpectedMarkups(entity) ==
    IF entity = "line_item" THEN {None, "given"} ELSE {None}

NamingBatches(entity) ==
    IF entity = "line_item"
    THEN {b \in BatchResults : b.issues = 1 /\ ~b.raises} ELSE {NoBatch}

SetupBatches(entity) ==
    IF entity = "line_item" THEN BatchResults ELSE {NoBatch}

NoInput ==
    [entity |-> None, table |-> <<>>, check_types |-> <<>>,
     naming_convention |-> None, expected_markup |-> None,
     naming_batch |-> NoBatch, setup_batch |-> NoBatch]

\* Results of run_selective_*_detection and of the tools around them.
Detected(rows) == [status |-> "returned", rows |-> rows]

KeyErrorRaised == [status |-> "KeyError", rows |-> <<>>]

NoResult == [status |-> None, rows |-> <<>>]

ToolOutput(status, checks_run, anomalies) ==
    [status |-> status, checks_run |-> checks_run,
     count |-> Len(anomalies), anomalies |-> anomalies]

NoOutput == ToolOutput(None, <<>>, <<>>)

\* A check function on a row: (True, description), (False, "") or an
\* exception.  Every description the check functions build ends in ";".
check_func(check_type, row) ==
    IF check_type \in row.raising THEN "raises"
    ELSE IF check_type \in row.abnormal THEN "abnormal"
    ELSE "normal"

description(check_type) == <<check_type, ";">>

\* The description a batched check stores under a name: its issues joined
\* by "; " and closed by ";".
RECURSIVE batch_description(_, _)
batch_description(check_type, issues) ==
    IF issues <= 1 THEN <<check_type, ";">>
    ELSE <<check_type, ";", " ">> \o batch_description(check_type, issues - 1)

\* '; '.join(row_anomalies)
RECURSIVE join(_)
join(row_anomalies) ==
    IF row_anomalies = <<>> THEN <<>>
    ELSE IF Len(row_anomalies) = 1 THEN row_anomalies[1]
    ELSE row_anomalies[1] \o <<";", " ">> \o join(Tail(row_anomalies))

\* The inner loop giving up on a row as soon as one of its checks raises.
per_row_anomalies_abort_row(row, check_functions) ==
    LET raises(check_type) == check_func(check_type, row) = "raises"
        abnormal(check_type) == check_func(check_type, row) = "abnormal"
        failing == SelectSeq(check_functions, abnormal)
    IN  IF SelectSeq(check_functions, raises) # <<>> THEN <<>>
        ELSE [i \in 1..Len(failing) |-> description(failing[i])]

\* The inner loop over check_functions for one row.
RECURSIVE per_row_anomalies(_, _)
per_row_anomalies(row, check_functions) ==
    IF check_functions = <<>> THEN <<>>
    ELSE (IF check_func(Head(check_functions), row) = "abnormal"
          THEN << description(Head(check_functions)) >> ELSE <<>>)
         \o per_row_anomalies(row, Tail(check_functions))

\* The merge of the batched results by name, after the per-row checks.
RECURSIVE batch_anomalies(_, _)
batch_anomalies(row, dicts) ==
    IF dicts = <<>> THEN <<>>
    ELSE (IF row.Name \in Head(dicts).keys
          THEN << batch_description(Head(dicts).check_type,
                                    Head(dicts).issues) >>
          ELSE <<>>)
         \o batch_anomalies(row, Tail(dicts))

\* The body shared by the three run_selective_*_detection functions: the
\* loop over the rows, the two derived columns, the filter and the drop of
\* is_abnormal.  On a table without rows both derived columns are empty and
\* not boolean, df[df['is_abnormal']] then selects no column, and the drop
\* of is_abnormal raises KeyError.
filter_abnormal(df, check_functions, dicts) ==
    LET row_anomalies(row) == per_row_anomalies(row, check_functions)
                                \o batch_anomalies(row, dicts)
        annotated == [i \in 1..Len(df) |->
                        [row |-> df[i],
                         is_abnormal |-> row_anomalies(df[i]) # <<>>,
                         anomalies_description |-> join(row_anomalies(df[i]))]]
        keep(r) == r.is_abnormal
        abnormal == SelectSeq(annotated, keep)
    IN  IF df = <<>> THEN KeyErrorRaised
        ELSE Detected([i \in 1..Len(abnormal) |->
                         [row |-> abnormal[i].row,
                          anomalies_description |->
                              abnormal[i].anomalies_description]])

\* A batched check as run_selective_*_detection uses it: {} when it raises.
batch_dict(check_type, result) ==
    [check_type |-> check_type,
     keys |-> IF result.raises THEN {} ELSE result.keys,
     issues |-> result.issues]

run_selective_campaign_detection(campaigns_df, check_functions) ==
    filter_abnormal(campaigns_df, check_functions, <<>>)

run_selective_li_detection(line_items_df, check_types, naming_convention, expected_markup, naming_batch, setup_batch) ==
    LET check_functions ==
            (IF "safeguards" \in Range(check_types)
             THEN <<"safeguards">> ELSE <<>>)
            \o (IF "inventory" \in Range(check_types)
                THEN <<"inventory">> ELSE <<>>)
            \o (IF "markup" \in Range(check_types) /\ expected_markup # None
                THEN <<"markup">> ELSE <<>>)
        naming_anomalies ==
            IF "naming" \in Range(check_types) /\ naming_convention # None
            THEN batch_dict("naming", naming_batch)
            ELSE batch_dict("naming", NoBatch)
        naming_setup_anomalies ==
            IF "naming_setup" \in Range(check_types)
            THEN batch_dict("naming_setup", setup_batch)
            ELSE batch_dict("naming_setup", NoBatch)
    IN  filter_abnormal(line_items_df, check_functions,
                        <<naming_anomalies, naming_setup_anomalies>>)

run_selective_io_detection(insertion_orders_df, check_types) ==
    LET check_functions ==
            (IF "naming_kpi" \in Range(check_types)
             THEN <<"naming_kpi">> ELSE <<>>)
            \o (IF "kpi_objective" \in Range(check_types)
                THEN <<"kpi_objective">> ELSE <<>>)
            \o (IF "kpi_optimization" \in Range(check_types)
                THEN <<"kpi_optimization">> ELSE <<>>)
            \o (IF "cpm_capping" \in Range(check_types)
                THEN <<"cpm_capping">> ELSE <<>>)
        naming_anomalies == batch_dict("naming", NoBatch)
    IN  filter_abnormal(insertion_orders_df, check_functions,
                        <<naming_anomalies>>)

\* The requested list after the defaulting done by each tool.
campaign_check_types(input) ==
    IF input.check_types = <<>> THEN CAMPAIGN_CHECK_TYPES
    ELSE input.check_types

line_item_check_types(input) ==
    IF input.check_types = <<>>
    THEN <<"safeguards", "inventory", "naming_setup">>
         \o (IF input.expected_markup # None THEN <<"markup">> ELSE <<>>)
         \o (IF input.naming_convention # None THEN <<"naming">> ELSE <<>>)
    ELSE input.check_types

insertion_order_check_types(input) ==
    IF input.check_types = <<>>
    THEN <<"naming_kpi", "kpi_objective", "kpi_optimization", "cpm_capping">>
         \o (IF input.naming_convention # None THEN <<"naming">> ELSE <<>>)
    ELSE input.check_types

\* The call of run_selective_*_detection each tool makes.
selective_detection(input) ==
    CASE input.entity = "campaign" ->
           LET known(check_type) ==
                   check_type \in {"goal", "kpi", "frequency"}
           IN  run_selective_campaign_detection(
                   input.table, SelectSeq(campaign_check_types(input), known))
      [] input.entity = "line_item" ->
           run_selective_li_detection(
               input.table, line_item_check_types(input),
               input.naming_convention, input.expected_markup,
               input.naming_batch, input.setup_batch)
      [] OTHER ->
           run_selective_io_detection(
               input.table, insertion_order_check_types(input))

\* The checks a call evaluates: the per-row check functions put in the list
\* and the batched checks that are called.  run_selective_io_detection
\* calls no batched check: its naming_anomalies is always {}.
checks_evaluated(input) ==
    CASE input.entity = "campaign" ->
           Range(campaign_check_types(input)) \cap {"goal", "kpi", "frequency"}
      [] input.entity = "line_item" ->
           LET check_types == Range(line_item_check_types(input))
           IN  (check_types \cap {"safeguards", "inventory", "naming_setup"})
               \cup (IF "markup" \in check_types
                        /\ input.expected_markup # None
                     THEN {"markup"} ELSE {})
               \cup (IF "naming" \in check_types
                        /\ input.naming_convention # None
                     THEN {"naming"} ELSE {})
      [] OTHER ->
           Range(insertion_order_check_types(input))
               \cap {"naming_kpi", "kpi_objective", "kpi_optimization",
                     "cpm_capping"}

\* result.head(50) of the line item tool.
ResponseLimit == 50

head(rows, n) == SubSeq(rows, 1, IF Len(rows) < n THEN Len(rows) ELSE n)

\* The try/except and the JSON answer around that call.
tool_answer(input, check_types, limited) ==
    LET result == selective_detection(input)
    IN  IF result.status # "returned" THEN ToolOutput("error", <<>>, <<>>)
        ELSE [ ToolOutput("success", check_types,
                          IF limited THEN head(result.rows, ResponseLimit)
                          ELSE result.rows)
               EXCEPT !.count = Len(result.rows) ]

\* --------------------------------------------------- the check predicates
\* A cell of a row.  Text is a sequence of words; numbers are in tenths
\* (0.8 is 8, 7.5 is 75).  Missing: the row has no such column.  NaN: the
\* cell is empty in the CSV.  NoneCell: what Series.get hands back for an
\* absent column when the call names no default.
Cell(kind, text, num) == [kind |-> kind, text |-> text, num |-> num]

Missing == Cell("missing", <<>>, 0)

NaN == Cell("nan", <<>>, 0)

NoneCell == Cell("none", <<>>, 0)

Str(text) == Cell("str", text, 0)

Num(n) == Cell("num", <<>>, n)

Bool(b) == Cell("bool", <<>>, IF b THEN 10 ELSE 0)

\* Series.get(field, default)
get(row, field, default) ==
    IF field \notin DOMAIN row \/ row[field] = Missing THEN default
    ELSE row[field]

\* pd.isna on a scalar
isna(v) == v.kind \in {"nan", "none"}

\* v == w in Python: numbers and booleans compare by value, text with text,
\* NaN equals nothing.
eq(v, w) ==
    \/ v.kind \in {"num", "bool"} /\ w.kind \in {"num", "bool"} /\ v.num = w.num
    \/ v.kind = "str" /\ w.kind = "str" /\ v.text = w.text

\* bool(v): None, zero, False and '' are false; NaN is true.
truth(v) ==
    CASE v.kind = "none" -> FALSE
      [] v.kind \in {"num", "bool"} -> v.num # 0
      [] v.kind = "str" -> v.text # <<>>
      [] OTHER -> TRUE

\* str.lower(), word by word.
lower_word(w) ==
    CASE w = "Awareness" -> "awareness"
      [] w = "Consideration" -> "consideration"
      [] w = "Conversion" -> "conversion"
      [] w = "Premium" -> "premium"
      [] w = "Spring" -> "spring"
      [] w = "Brand" -> "brand"
      [] w = "Push" -> "push"
      [] w = "True" -> "true"
      [] w = "False" -> "false"
      [] OTHER -> w

lower(text) == [i \in 1..Len(text) |-> lower_word(text[i])]

\* f"{v}" as a sequence of words: a float prints with one decimal.
format(v) ==
    CASE v.kind = "str" -> v.text
      [] v.kind = "num" ->
           << ToString(v.num \div 10) \o "." \o ToString(v.num % 10) >>
      [] v.kind = "bool" -> << IF v.num # 0 THEN "True" ELSE "False" >>
      [] v.kind = "none" -> << "None" >>
      [] OTHER -> << "nan" >>

\* float(text): the numeric strings of the tables below, ValueError on any
\* other text.
float(text) ==
    CASE text = <<"7.5">> -> [ok |-> TRUE, value |-> Num(75)]
      [] text = <<"3">> -> [ok |-> TRUE, value |-> Num(30)]
      [] text = <<"0">> -> [ok |-> TRUE, value |-> Num(0)]
      [] OTHER -> [ok |-> FALSE, value |-> NaN]

\* What a predicate does on a row: the pair (is_abnormal, description), or
\* an exception.
Pair(flag, words) ==
    [status |-> "returned", is_abnormal |-> flag, description |-> words]

Raised(error) ==
    [status |-> error, is_abnormal |-> FALSE, description |-> <<>>]

NoPair == [status |-> None, is_abnormal |-> FALSE, description |-> <<>>]

NoCheck == [predicate |-> None, row |-> <<>>]

\* campaign_anomaly_detector_tool.check_kpi_configuration.  The name is
\* lowered after the two tests on the KPI, whatever its type.
check_kpi_configuration(campaign) ==
    LET campaign_kpi == get(campaign, "Campaign Goal KPI", Str(<<>>))
        kpi_value == get(campaign, "Campaign Goal KPI Value", NaN)
        campaign_name == get(campaign, "Name", Str(<<>>))
        name_lower == Range(lower(campaign_name.text))
        kpi_in(texts) == \E t \in texts : eq(campaign_kpi, Str(<<t>>))
    IN  IF isna(campaign_kpi) \/ eq(campaign_kpi, Str(<<>>))
        THEN Pair(TRUE, <<"Campaign KPI type is missing;">>)
        ELSE IF kpi_in({"CTR", "CPA", "CPM"})
                  /\ (isna(kpi_value) \/ eq(kpi_value, Num(0)))
        THEN Pair(TRUE, <<"Campaign KPI value is missing or zero for">>
                          \o format(campaign_kpi) \o <<";">>)
        ELSE IF campaign_name.kind # "str" THEN Raised("AttributeError")
        ELSE IF "awareness" \in name_lower /\ ~kpi_in({"CPM", "CTR"})
        THEN Pair(TRUE, <<"Campaign name suggests Awareness but KPI is">>
                          \o format(campaign_kpi)
                          \o <<"(expected CPM or CTR);">>)
        ELSE IF "consideration" \in name_lower /\ ~kpi_in({"CTR"})
        THEN Pair(TRUE, <<"Campaign name suggests Consideration but KPI is">>
                          \o format(campaign_kpi) \o <<"(expected CTR);">>)
        ELSE IF "conversion" \in name_lower /\ ~kpi_in({"CPA"})
        THEN Pair(TRUE, <<"Campaign name suggests Conversion but KPI is">>
                          \o format(campaign_kpi) \o <<"(expected CPA);">>)
        ELSE IF kpi_in({"CTR"}) /\ ~isna(kpi_value)
        THEN (IF kpi_value.kind = "str" THEN Raised("TypeError")
              ELSE IF kpi_value.num < 1 \/ kpi_value.num > 5
              THEN Pair(TRUE, <<"CTR target">> \o format(kpi_value)
                                \o <<"% is outside typical range (0.1%-0.5%);">>)
              ELSE Pair(FALSE, <<>>))
        ELSE Pair(FALSE, <<>>)

\* ', '.join(parts)
RECURSIVE join_comma(_)
join_comma(parts) ==
    IF parts = <<>> THEN <<>>
    ELSE IF Len(parts) = 1 THEN <<parts[1]>>
    ELSE <<parts[1], ", ">> \o join_comma(Tail(parts))

\* pd.isna(v) or v == ''
blank(v) == isna(v) \/ eq(v, Str(<<>>))

\* li_anomaly_detector_tool.check_li_safeguards.  Inactive line items are
\* skipped; Name and Io Name are lowered, whatever their type, before the
\* function returns anything for an active line item.
check_li_safeguards(li) ==
    LET status == get(li, "Status", Str(<<>>))
        txt(field) == get(li, field, Str(<<>>))
        trueview == eq(get(li, "Type", Str(<<>>)), Str(<<"TrueView">>))
        brand ==
            (IF blank(txt("Digital Content Labels - Exclude"))
             THEN <<"Digital Content Label exclusions">> ELSE <<>>)
            \o (IF blank(txt("Brand Safety Custom Settings"))
                THEN <<"Brand Safety sensitive category exclusions">>
                ELSE <<>>)
        app ==
            IF ~blank(txt("App Targeting - Include"))
                 /\ blank(txt("App Targeting - Exclude"))
            THEN <<"App URL exclusions (app inventory detected)">> ELSE <<>>
        environment ==
            IF blank(txt("Environment Targeting")) /\ ~trueview
            THEN <<"Environment targeting">> ELSE <<>>
        viewability_targeting == txt("Viewability Targeting Active View")
        is_public_inventory ==
            /\ ~blank(txt("Inventory Source Targeting - Include"))
            /\ blank(txt("Private Deal Group Targeting Include"))
        viewability ==
            IF is_public_inventory
                 /\ (blank(viewability_targeting)
                     \/ eq(viewability_targeting, Str(<<"All">>)))
            THEN <<"Viewability targeting (required for public inventory)">>
            ELSE <<>>
        language ==
            IF blank(txt("Language Targeting - Include"))
            THEN <<"Language targeting settings">> ELSE <<>>
        device ==
            IF blank(txt("Device Targeting - Include"))
            THEN <<"Device targeting configuration">> ELSE <<>>
        read_enabled ==
            IF trueview
            THEN get(li, "TrueView View Frequency Enabled", NoneCell)
            ELSE get(li, "Frequency Enabled", Bool(FALSE))
        freq_enabled ==
            IF read_enabled.kind = "str"
            THEN Bool(lower(read_enabled.text) = <<"true">>)
            ELSE read_enabled
        freq_exposures ==
            IF trueview
            THEN get(li, "TrueView View Frequency Exposures", NoneCell)
            ELSE get(li, "Frequency Exposures", Num(0))
        freq_amount ==
            IF trueview THEN Str(<<"Not applicable to TrueView line items">>)
            ELSE get(li, "Frequency Amount", Num(0))
        freq_period ==
            IF trueview
            THEN get(li, "TrueView View Frequency Period", NoneCell)
            ELSE get(li, "Frequency Period", Str(<<>>))
        frequency ==
            IF ~truth(freq_enabled) THEN <<"Frequency capping (disabled)">>
            ELSE IF isna(freq_exposures) \/ eq(freq_exposures, Num(0))
            THEN <<"Frequency exposures (not set or zero)">>
            ELSE IF isna(freq_amount) \/ eq(freq_amount, Num(0))
            THEN <<"Frequency amount (not set or zero)">>
            ELSE IF blank(freq_period)
            THEN <<"Frequency period (not set or zero)">>
            ELSE <<>>
        li_name == txt("Name")
        io_name == txt("Io Name")
        words == Range(lower(li_name.text)) \cup Range(lower(io_name.text))
        floodlight ==
            IF words \cap {"conversion", "convert", "performance", "cpa",
                           "acquisition"} # {}
                 /\ blank(txt("Conversion Floodlight Activity Ids"))
            THEN <<"Floodlight activity (required for conversion campaigns)">>
            ELSE <<>>
        blacklists ==
            (IF blank(txt("Channel Targeting - Exclude"))
             THEN <<"Channel blacklist exclusions">> ELSE <<>>)
            \o (IF blank(txt("Keyword List Targeting - Exclude"))
                THEN <<"Keyword blacklist exclusions">> ELSE <<>>)
        missing_safeguards ==
            brand \o app \o environment \o viewability \o language \o device
                \o frequency \o floodlight \o blacklists
    IN  IF ~eq(status, Str(<<"Active">>)) THEN Pair(FALSE, <<>>)
        ELSE IF li_name.kind # "str" \/ io_name.kind # "str"
        THEN Raised("AttributeError")
        ELSE IF missing_safeguards # <<>>
        THEN Pair(TRUE, <<"LI Missing Safeguards: ">>
                          \o join_comma(missing_safeguards) \o <<";">>)
        ELSE Pair(FALSE, <<>>)

\* li_anomaly_detector_tool.check_li_inventory_consistency
check_li_inventory_consistency(li) ==
    LET io_name == get(li, "Io Name", Str(<<>>))
        inventory_source ==
            get(li, "Inventory Source Targeting - Include", Str(<<>>))
        private_deals ==
            get(li, "Private Deal Group Targeting Include", Str(<<>>))
    IN  IF io_name.kind # "str" THEN Raised("AttributeError")
        ELSE IF "premium" \in Range(lower(io_name.text))
                  /\ ~blank(inventory_source) /\ blank(private_deals)
        THEN Pair(TRUE, <<"Premium IO Uses Public Inventory: IO labeled as Premium but includes public inventory sources;">>)
        ELSE Pair(FALSE, <<>>)

\* default_cpm_cap: float = 5.0, in tenths.
default_cpm_cap == 50

\* check_cpm_capping without the test against the ceiling.
check_cpm_capping_no_ceiling(io) ==
    IF eq(get(io, "Kpi Type", Str(<<>>)), Str(<<"CPM">>))
         /\ (isna(get(io, "Kpi Value", NaN))
             \/ eq(get(io, "Kpi Value", NaN), Num(0))
             \/ get(io, "Kpi Value", NaN) \in {Str(<<"abc">>), Str(<<>>), Str(<<"0">>)})
    THEN Pair(TRUE, <<"IO Missing/Invalid CPM Cap:">>)
    ELSE Pair(FALSE, <<>>)

\* io_anomaly_detector_tool.check_cpm_capping
check_cpm_capping(io) ==
    LET kpi_type == get(io, "Kpi Type", Str(<<>>))
        read_value == get(io, "Kpi Value", NaN)
        parsed == float(read_value.text)
        kpi_value == IF read_value.kind = "str" THEN parsed.value
                     ELSE read_value
        head_words == "IO Missing/Invalid CPM Cap:"
    IN  IF ~eq(kpi_type, Str(<<"CPM">>)) THEN Pair(FALSE, <<>>)
        ELSE IF isna(read_value)
        THEN Pair(TRUE, <<head_words, "KPI is CPM but no CPM cap is set;">>)
        ELSE IF read_value.kind = "str" /\ ~parsed.ok
        THEN Pair(TRUE, <<head_words, "CPM cap value '">>
                          \o format(read_value) \o <<"' is invalid;">>)
        ELSE IF eq(kpi_value, Num(0))
        THEN Pair(TRUE, <<head_words,
                          "KPI is CPM but CPM cap is set to 0 (no cap);">>)
        ELSE IF kpi_value.num > default_cpm_cap
        THEN Pair(TRUE, <<head_words, "CPM cap (">> \o format(kpi_value)
                          \o <<") exceeds agreed ceiling (">>
                          \o format(Num(default_cpm_cap)) \o <<");">>)
        ELSE Pair(FALSE, <<>>)

\* Rows of the bounded tables the predicates are applied to.  Every field a
\* predicate reads can be absent from the row, or NaN.
CampaignRows ==
    { [f \in {"Campaign Goal KPI", "Campaign Goal KPI Value", "Name"} |->
         CASE f = "Campaign Goal KPI" -> kpi
           [] f = "Campaign Goal KPI Value" -> value
           [] OTHER -> name] :
        kpi \in {Missing, NaN, Str(<<>>), Str(<<"CTR">>), Str(<<"CPA">>),
                 Str(<<"CPM">>), Str(<<"CPV">>)},
        value \in {Missing, NaN, Num(0), Num(3), Num(8)},
        name \in {Missing, NaN, Str(<<"Spring">>),
                  Str(<<"Brand", "Awareness">>), Str(<<"Consideration">>),
                  Str(<<"Conversion", "Push">>)} }

InsertionOrderRows ==
    { [f \in {"Kpi Type", "Kpi Value"} |->
         IF f = "Kpi Type" THEN kpi_type ELSE kpi_value] :
        kpi_type \in {Missing, NaN, Str(<<"CPM">>), Str(<<"CPC">>)},
        kpi_value \in {Missing, NaN, Num(0), Num(30), Num(50), Num(75),
                       Str(<<"7.5">>), Str(<<"3">>), Str(<<"0">>),
                       Str(<<"abc">>), Str(<<>>)} }

\* The targeting columns of a line item, set together.
TargetingFields ==
    {"Digital Content Labels - Exclude", "Brand Safety Custom Settings",
     "App Targeting - Include", "App Targeting - Exclude",
     "Environment Targeting", "Viewability Targeting Active View",
     "Inventory Source Targeting - Include",
     "Private Deal Group Targeting Include", "Language Targeting - Include",
     "Device Targeting - Include", "Conversion Floodlight Activity Ids",
     "Channel Targeting - Exclude", "Keyword List Targeting - Exclude"}

AllSet == [f \in TargetingFields |-> Str(<<"set">>)]

Targetings ==
    { AllSet,
      [f \in TargetingFields |-> NaN],
      [AllSet EXCEPT !["Private Deal Group Targeting Include"] = NaN,
                     !["Viewability Targeting Active View"] = Str(<<"All">>)],
      [AllSet EXCEPT !["App Targeting - Exclude"] = Str(<<>>)] }

LineItem(targeting, status, type, name, io_name, enabled, exposures, amount, period, trueview_enabled) ==
    targeting
        @@ ("Status" :> status) @@ ("Type" :> type) @@ ("Name" :> name)
        @@ ("Io Name" :> io_name) @@ ("Frequency Enabled" :> enabled)
        @@ ("Frequency Exposures" :> exposures)
        @@ ("Frequency Amount" :> amount) @@ ("Frequency Period" :> period)
        @@ ("TrueView View Frequency Enabled" :> trueview_enabled)
        @@ ("TrueView View Frequency Exposures" :> Num(30))
        @@ ("TrueView View Frequency Period" :> Str(<<"Days">>))

Statuses == {Str(<<"Active">>), Str(<<"Paused">>), NaN}

Types == {Str(<<"Display">>), Str(<<"TrueView">>)}

LineItemNames == {Missing, NaN, Str(<<"Spring">>), Str(<<"Conversion", "Push">>)}

IoNames == {NaN, Str(<<"Premium">>), Str(<<"Spring">>)}

EnabledCells ==
    {Missing, NaN, Bool(TRUE), Bool(FALSE), Str(<<"True">>), Str(<<"False">>)}

\* The per-row checks of the line item tool on a row of cells.
li_check(check_type, li) ==
    IF check_type = "safeguards" THEN check_li_safeguards(li)
    ELSE check_li_inventory_consistency(li)

\* The row as the detection engine sees it: what each check function does.
as_row(li) ==
    [Name |-> "A",
     abnormal |-> {c \in {"safeguards", "inventory"} :
                     li_check(c, li).is_abnormal},
     raising |-> {c \in {"safeguards", "inventory"} :
                    li_check(c, li).status # "returned"}]

\* detect_line_item_anomalies called with the table only.
default_call(li) ==
    [NoInput EXCEPT !.entity = "line_item", !.table = <<as_row(li)>>]

\* ---------------------------------------------------- the result normalizer
\* upload_to_gcs_with_fallback: a signed or public URL, a warning with a
\* URL, an error text, or the text it returns when uploads are switched off.
UploadOutcomes == {"url", "warning_url", "failed", "disabled"}

\* The error text returned without its leading mark.
download_url_unmarked(upload) ==
    IF upload = "failed" THEN <<"", "Upload failed: reason">>
    ELSE <<"", "https://storage.googleapis.com/file.csv">>

\* The string it returns, as its leading mark and the rest.
download_url(upload) ==
    CASE upload = "url" -> <<"", "https://storage.googleapis.com/file.csv">>
      [] upload = "warning_url" ->
           <<"warning", "File uploaded but URL might require authentication",
             "https://storage.googleapis.com/file.csv">>
      [] upload = "failed" -> <<"cross", "Upload failed: reason">>
      [] OTHER -> <<"chart", "Data generated successfully (GCS upload disabled)">>

\* CELL_THRESHOLD_FOR_GCS
CELL_THRESHOLD_FOR_GCS == 0

\* df.head(10).iloc[:, :10]
DisplayLimit == 10

len(df) == df.nrows

len_columns(df) == Cardinality(df.columns)

\* DataFrame.empty: one of the two axes has length 0.
empty(df) == len(df) = 0 \/ len_columns(df) = 0

min(a, b) == IF a < b THEN a ELSE b

\* ResultProcessor._should_upload_to_gcs
_should_upload_to_gcs(df) ==
    len(df) * len_columns(df) >= CELL_THRESHOLD_FOR_GCS

\* display_data: the rows and columns of the rendered table and the lines
\* added under it.
Preview(text, rows, columns, truncation_info) ==
    [text |-> text, rows |-> rows, columns |-> columns,
     truncation_info |-> truncation_info]

NoPreview == Preview(None, 0, 0, <<>>)

\* _format_dataframe_for_display counting the rows it shows, not the rows it
\* leaves out.
_format_dataframe_for_display_shown(df) ==
    IF empty(df) THEN Preview("*(Empty DataFrame)*", 0, 0, <<>>)
    ELSE Preview("table", min(len(df), DisplayLimit),
                 min(len_columns(df), DisplayLimit),
                 (IF len(df) > DisplayLimit
                  THEN <<"... +" \o ToString(DisplayLimit) \o " more rows">>
                  ELSE <<>>)
                 \o (IF len_columns(df) > DisplayLimit
                     THEN <<"... +" \o ToString(DisplayLimit)
                              \o " more columns">>
                     ELSE <<>>))

\* ResultProcessor._format_dataframe_for_display
_format_dataframe_for_display(df) ==
    IF empty(df) THEN Preview("*(Empty DataFrame)*", 0, 0, <<>>)
    ELSE Preview("table", min(len(df), DisplayLimit),
                 min(len_columns(df), DisplayLimit),
                 (IF len(df) > DisplayLimit
                  THEN <<"... +" \o ToString(len(df) - DisplayLimit)
                           \o " more rows">>
                  ELSE <<>>)
                 \o (IF len_columns(df) > DisplayLimit
                     THEN <<"... +" \o ToString(len_columns(df) - DisplayLimit)
                              \o " more columns">>
                     ELSE <<>>))

\* The dictionary _handle_dataframe_result returns, with the number of
\* calls of upload_to_gcs_with_fallback it made.
Model(type, status, download_links, display_data, upload_error, message, uploads) ==
    [type |-> type, status |-> status, download_links |-> download_links,
     display_data |-> display_data, upload_error |-> upload_error,
     message |-> message, uploads |-> uploads]

\* _handle_dataframe_result testing for an empty table before it tests for
\* an error table.
_handle_dataframe_result_empty_first(df, upload) ==
    IF empty(df)
    THEN Model("dataframe", "empty", <<>>,
               Preview("*(Empty DataFrame)*", 0, 0, <<>>), <<>>,
               <<"data is empty.">>, 0)
    ELSE IF df.columns = {"error"}
    THEN Model("error", "error", <<>>, NoPreview, <<>>,
               <<"Code Execution Failed After Retries", df.error>>, 0)
    ELSE Model("dataframe", "success", <<download_url(upload)[2]>>,
               _format_dataframe_for_display(df), <<>>,
               <<"processed successfully">>, 1)

\* ResultProcessor._handle_dataframe_result
_handle_dataframe_result(df, upload) ==
    LET should_upload == _should_upload_to_gcs(df)
        display_data == _format_dataframe_for_display(df)
        url == download_url(upload)
        upload_failed == url[1] = "cross"
        upload_warning == url[1] = "warning"
        clean_url == IF upload_warning /\ Len(url) = 3 THEN url[3] ELSE url[2]
    IN  IF "error" \in df.columns /\ len_columns(df) = 1
        THEN Model("error", "error", <<>>, NoPreview, <<>>,
                   <<"Code Execution Failed After Retries",
                     IF len(df) > 0 THEN df.error ELSE "Unknown error">>, 0)
        ELSE IF empty(df)
        THEN Model("dataframe", "empty", <<>>,
                   Preview("*(Empty DataFrame)*", 0, 0, <<>>), <<>>,
                   <<"data is empty.">>, 0)
        ELSE IF should_upload
        THEN (IF upload_failed
              THEN Model("dataframe", "partial_success", <<>>, display_data,
                         url, <<"processed successfully">> \o url, 1)
              ELSE Model("dataframe", "success", <<clean_url>>, display_data,
                         <<>>, <<"processed successfully">>, 1))
        ELSE Model("dataframe", "success", <<>>, display_data, <<>>,
                   <<"rows, columns, cells">>, 0)

\* ------------------------------------------- mappings and lists of tables
\* processed_item.get("rows_count", 0): the key is set only for a table
\* handled as data.
get_rows_count(df) ==
    IF ("error" \in df.columns /\ len_columns(df) = 1) \/ empty(df)
    THEN 0 ELSE len(df)

\* processed_item.get("cell_count", 0)
get_cell_count(df) ==
    IF ("error" \in df.columns /\ len_columns(df) = 1) \/ empty(df)
    THEN 0 ELSE len(df) * len_columns(df)

\* _handle_unexpected_result: the table made of a value that is no table.
\* A dict of lists gives its columns, lists of unequal length make the
\* constructor raise, any other dict gives one row.
converted(result) ==
    CASE result.type = "DataFrame" -> result
      [] result.type = "dict" /\ result.members = "lists" ->
           DataFrame(result.columns, result.nrows, "")
      [] result.type = "dict" /\ result.members = "ragged" ->
           DataFrame({"error_type", "error_message", "raw_value"}, 1, "")
      [] result.type = "dict" -> DataFrame(result.columns, 1, "")
      [] result.type \in {"str", "int", "float", "bool"} ->
           DataFrame({"value"}, 1, "")
      [] OTHER -> DataFrame({"result"}, 1, "")

\* ResultProcessor._handle_unexpected_result
_handle_unexpected_result(result, upload) ==
    _handle_dataframe_result(converted(result), upload)

\* The model of a mapping or list.
Summary(type, status, items_count, total_rows, total_cells, processed_items, download_links) ==
    [type |-> type, status |-> status, items_count |-> items_count,
     total_rows |-> total_rows, total_cells |-> total_cells,
     processed_items |-> processed_items, download_links |-> download_links]

NoSummary == Summary(None, None, 0, 0, 0, <<>>, <<>>)

NoMembers == [type |-> None, items |-> <<>>]

RECURSIVE for_items(_, _)
\* The loop of _handle_dict_result and of _handle_list_result: acc is the
\* model built so far, items the members still to be handled.
for_items(items, acc) ==
    IF items = <<>> THEN acc
    ELSE LET item == Head(items).value
             processed_item ==
                IF item.type = "DataFrame"
                THEN _handle_dataframe_result(item, Head(items).upload)
                ELSE _handle_unexpected_result(item, Head(items).upload)
         IN  for_items(Tail(items),
                [acc EXCEPT
                   !.processed_items = Append(@, processed_item),
                   !.download_links = @ \o processed_item.download_links,
                   !.total_rows = @ + get_rows_count(converted(item)),
                   !.total_cells = @ + get_cell_count(converted(item))])

\* for_items adding the links of the last member only.
_handle_collection_last_links(type, items) ==
    IF items = <<>>
    THEN Summary(type, "empty", 0, 0, 0, <<>>, <<>>)
    ELSE LET all == for_items(items,
                       Summary(type, "success", Len(items), 0, 0, <<>>, <<>>))
         IN  [all EXCEPT !.download_links =
                 all.processed_items[Len(items)].download_links]

\* ResultProcessor._handle_dict_result and _handle_list_result
_handle_collection(type, items) ==
    IF items = <<>>
    THEN Summary(type, "empty", 0, 0, 0, <<>>, <<>>)
    ELSE for_items(items,
                   Summary(type, "success", Len(items), 0, 0, <<>>, <<>>))

\* One call of the normalizer on one table, and what it gave.
NoTable == [call |-> None, df |-> NoneValue, upload |-> None]

NoModel == Model(None, None, <<>>, NoPreview, <<>>, <<>>, 0)

\* Largest number of rows, and of columns, of a table handed to the
\* normalizer.
MaxSide == 12

Columns(c) == {"c" \o ToString(k) : k \in 1..c}

\* Tables of every shape up to MaxSide, with and without an "error" column.
Tables ==
    { DataFrame(Columns(c), r, "") : r \in 0..MaxSide, c \in 0..MaxSide }
    \cup { DataFrame({"error"}, r, IF r = 0 THEN "" ELSE GeneratedErrorText) :
             r \in 0..MaxSide }
    \cup { DataFrame({"error"} \cup Columns(c), r, GeneratedErrorText) :
             r \in 1..MaxSide, c \in 1..2 }

\* Largest number of members of a mapping or list.
MaxMembers == 2

\* Members of a mapping or list: data tables, empty tables, an error table,
\* and values that are no tables.
MemberValues ==
    { DataFrame(Columns(2), 3, ""), DataFrame(Columns(1), 1, ""),
      DataFrame(Columns(2), 0, ""), DataFrame({}, 2, ""),
      DataFrame({"error"}, 1, GeneratedErrorText),
      StrValue, NoneValue, Collection("list", "frames"),
      Value("dict", Columns(2), 2, "", "lists"),
      Value("dict", Columns(2), 0, "", "scalars"),
      Value("dict", Columns(2), 0, "", "ragged") }

MemberItems == [value : MemberValues, upload : UploadOutcomes]

\* ------------------------------------------------- stores keyed by identity
\* Callers of the two stores.  Two spellings of one partner name differ only
\* in case and surrounding blanks.
Users == {"ann@x.io", "bob@x.io"}

Partners == {"acme", " Acme ", "globex"}

\* str.lower().strip() on the names above.
lower_strip(name) == IF name = " Acme " THEN "acme" ELSE name

\* What the data source holds for a (user, partner): tagged with its owner.
OwnedBy(user, partner) == [user |-> user, partner |-> partner]

\* {} / [] handed to a caller, and a key with nothing stored under it.
Empty == OwnedBy("", "")

Absent == OwnedBy(None, None)

\* A value handed by one of the stores to the caller (user, partner).
Answer(store_name, user, partner, v) ==
    [store |-> store_name, user |-> user, partner |-> partner, value |-> v]

\* EnhancedMemoryAgent.long_term_memory_path / the user_id column of
\* adam_user_preferences: the key under which preferences are stored.
long_term_memory_path(user, partner) == user

\* AdvertiserCache._get_cache_key
_get_cache_key(user_email, partner_name) ==
    <<lower_strip(user_email), lower_strip(partner_name)>>

CacheKeys == {_get_cache_key(u, p) : u \in Users, p \in Partners}

\* ------------------------------------------------- the evaluation service
\* Largest number of /evaluation/run requests.
MaxEvalRequests == 3

EvalRequests == 1..MaxEvalRequests

\* ------------------------------------------------- the conversation store
\* Largest number of /chat/message requests.
MaxConvTurns == 2

ConvTurns == 1..MaxConvTurns

\* ResetRequest.partner, AdamChatMessage.partner: any string, the empty one
\* included.
ConvPartners == {"acme", ""}

\* conversation_key / UNIQUE(user_id, partner_name)
ConvKeys == Users \X ConvPartners

\* What users type; every turn is answered with the same words.
Contents == {"yes", "hi"}

\* constants.py: MAX_CONVERSATION_HISTORY
MAX_CONVERSATION_HISTORY == 50

\* The last n elements of a list: ORDER BY timestamp DESC LIMIT n reversed,
\* and sort(reverse=True)[:n] read oldest first.
last(seq, n) ==
    IF Len(seq) <= n THEN seq ELSE SubSeq(seq, Len(seq) - n + 1, Len(seq))

RECURSIVE extend(_)
\* all_messages.extend(messages) over the conversations, oldest first.
extend(batches) ==
    IF batches = <<>> THEN <<>> ELSE Head(batches) \o extend(Tail(batches))

\* EnhancedMemoryAgent.load_conversation followed by the callers' sort by
\* timestamp: the messages of the stored conversations, oldest first.
load_conversation(stored, postgres) ==
    IF postgres
    THEN last(extend(stored), MAX_CONVERSATION_HISTORY)
    ELSE extend(stored)

RECURSIVE seen_once(_, _)
\* The seen_messages loop: a message whose (type, content) was met before is
\* left out.
seen_once(msgs, seen_messages) ==
    IF msgs = <<>> THEN <<>>
    ELSE IF Head(msgs) \in seen_messages
         THEN seen_once(Tail(msgs), seen_messages)
         ELSE <<Head(msgs)>> \o
              seen_once(Tail(msgs), seen_messages \cup {Head(msgs)})

\* routes/chat.py get_conversation_history: the "messages" of the answer.
get_conversation_history(stored, postgres) ==
    seen_once(load_conversation(stored, postgres), {})

\* EnhancedMemoryAgent.get_formatted_conversation_history
get_formatted_conversation_history(stored, postgres) ==
    seen_once(load_conversation(stored, postgres), {})

\* PostgreSQLStorage.save_messages: one row per message.
save_messages(stored, messages) ==
    IF messages = <<>> THEN stored ELSE Append(stored, messages)

\* EnhancedMemoryAgent._save_, the short-term part.
_save_(stored, messages, postgres) ==
    IF messages = <<>> THEN stored
    ELSE IF postgres THEN save_messages(stored, messages)
    ELSE IF stored # <<>> /\ stored[Len(stored)] = messages THEN stored
    ELSE last(Append(stored, messages), MAX_CONVERSATION_HISTORY)

\* EnhancedMemoryAgent.delete_all_conversations for the identity key, as it
\* leaves the conversations of the identity k.
delete_all_conversations(store_, key, k, postgres) ==
    IF postgres
    THEN IF key[2] # ""
         THEN IF k = key THEN <<>> ELSE store_[k]
         ELSE IF k[1] = key[1] THEN <<>> ELSE store_[k]
    ELSE IF k = key THEN <<>> ELSE store_[k]

\* A request that has not arrived.
NoChat ==
    [pc |-> "new", key |-> <<None, None>>, use_memory |-> TRUE,
     messages |-> <<>>, chat_history |-> <<>>, long_term_memory |-> Absent]

\* ----------------------------------------- the anomaly runner's globals
\* Largest number of turns that are in anomaly_det_runner_agent at once.
MaxRunners == 2

Runners == 1..MaxRunners

\* (user_email, partner_name) of a turn.
Identities == Users \X {"acme", "globex"}

\* A global that holds no table, and a tool that has not read one.
NoTables == <<None, None>>

Unread == <<"unread", "unread">>

NoRunner == [pc |-> "new", key |-> NoTables, tool |-> None,
             observed |-> Unread]

\* The services beside the conversation graph before any request.
NoSide ==
    /\ eval_status = "idle"
    /\ eval_pc = [r \in EvalRequests |-> "new"]
    /\ conversations = [k \in ConvKeys |-> <<>>]
    /\ chat = [t \in ConvTurns |-> NoChat]
    /\ conv_cleared = {}
    /\ _campaigns_df = NoTables
    /\ _line_items_df = NoTables
    /\ _insertion_orders_df = NoTables
    /\ runner = [r \in Runners |-> NoRunner]

\* The program before any request, deployed with or without PostgreSQL.
Deployed(postgres) ==
    /\ pc = "idle"
    /\ state = FreshState
    /\ use_memory = TRUE
    /\ steps = 0
    /\ store = [turns |-> 0, in_analysis |-> None]
    /\ pending = {}
    /\ response = None
    /\ gen_calls = 0
    /\ failed_attempts = 0
    /\ tool_failures = 0
    /\ last_outcome = None
    /\ last_upload = None
    /\ visited = {}
    /\ seen_in_analysis = None
    /\ prev_mid_analysis = FALSE
    /\ preferences = [k \in Users |-> Absent]
    /\ caches = [k \in CacheKeys |-> Absent]
    /\ returned = Answer(None, None, None, Empty)
    /\ NoSide
    /\ USE_POSTGRES_STORAGE = postgres

\* constants.py: USE_POSTGRES_STORAGE is "false" unless the environment
\* sets it.
Idle == Deployed(FALSE)

\* No detection tool, check predicate or normalizer call under way.
NoCalls ==
    /\ pred_input = NoCheck
    /\ pred_result = NoPair
    /\ norm_input = NoTable
    /\ norm_result = NoModel
    /\ norm_members = NoMembers
    /\ norm_summary = NoSummary

Init ==
    /\ Idle
    /\ det_input = NoInput
    /\ det_result = NoResult
    /\ det_output = NoOutput
    /\ NoCalls

\* A node runs as one superstep of the graph driver.
Superstep(node) ==
    /\ pc = node
    /\ steps < MaxSupersteps
    /\ steps' = steps + 1
    /\ visited' = visited \cup {node}

\* A node that raises: its update is dropped and the run ends with the
\* exception.
Raise ==
    /\ pc' = "raised"
    /\ state' = state

\* --------------------------------------------------------- process_message
\* process_message up to the first superstep: a fresh state per request.
StartTurn ==
    /\ pc = "idle"
    /\ \E um \in BOOLEAN : use_memory' = um
    /\ state' = FreshState
    /\ pc' = "memory_agent"
    /\ steps' = 0
    /\ visited' = {}
    /\ gen_calls' = 0
    /\ failed_attempts' = 0
    /\ tool_failures' = 0
    /\ last_outcome' = None
    /\ last_upload' = None
    /\ seen_in_analysis' = None
    /\ response' = None
    /\ UNCHANGED <<store, pending, prev_mid_analysis>>
    /\ UNCHANGED offgraph_vars

\* memory_agent: loads chat_history and long_term_memory, nothing else.
memory_agent ==
    /\ Superstep("memory_agent")
    /\ state' = [state EXCEPT !.chat_history =
                    IF use_memory THEN store.turns ELSE 0]
    /\ seen_in_analysis' = IF use_memory THEN store.in_analysis ELSE None
    /\ pc' = "entry_router"
    /\ UNCHANGED <<use_memory, store, pending, response, gen_calls,
                   failed_attempts, tool_failures, last_outcome,
                   last_upload, prev_mid_analysis>>
    /\ UNCHANGED offgraph_vars

\* graph_init: the conditional edge out of entry_router.
route_after_entry_router(s) ==
    IF s.in_analysis = "True" THEN "agent_analyser" ELSE "classify_intent"

entry_router ==
    /\ Superstep("entry_router")
    /\ state' = state
    /\ pc' = route_after_entry_router(state')
    /\ UNCHANGED <<use_memory, store, pending, response, history,
                   prev_mid_analysis>>
    /\ UNCHANGED offgraph_vars

\* ---------------------------------------------------------- classify_intent
\* What the classifier model can reply, as far as the parsing tells replies
\* apart: a JSON object (with some intent_category or none), a JSON value
\* that is not an object (a quoted string, a list, a number), or prose.
ClassifierReplies ==
    { [shape |-> "json_object", intent_category |-> c] :
        c \in IntentCategories \cup {"unlisted_category", None} }
    \cup { [shape |-> sh, intent_category |-> None] :
             sh \in {"json_other", "prose"} }

\* routes.py: route_theme_known.
route_theme_known(s) ==
    IF s.cleared_intent = "True" THEN "retrieve_instruction" ELSE "END"

\* classify_intent_agent, lines 78-111: json.loads, parsed.get, the category
\* test and the except clause, which names json.JSONDecodeError only.
classify_intent_agent(s, reply) ==
    IF reply.shape = "json_object" /\ reply.intent_category \in IntentCategories
    THEN [s EXCEPT !.intent_category = reply.intent_category,
                   !.cleared_intent = "True"]
    ELSE [s EXCEPT !.messages = Append(s.messages, Message("ai", "text")),
                   !.intent_category = None,
                   !.cleared_intent = "False"]

classify_intent ==
    /\ Superstep("classify_intent")
    /\ \E reply \in ClassifierReplies :
         IF reply.shape = "json_other"
         THEN Raise   \* parsed.get on a str/list: AttributeError, not caught
         ELSE /\ state' = classify_intent_agent(state, reply)
              /\ pc' = route_theme_known(state')
    /\ UNCHANGED <<use_memory, store, pending, response, history,
                   prev_mid_analysis>>
    /\ UNCHANGED offgraph_vars

\* ----------------------------------------------------- retrieve_instruction
\* The instruction file as the node finds it: readable with the theme,
\* readable without the theme, or not loadable.
InstructionFiles == {"has_theme", "lacks_theme", "unreadable"}

\* The edge out of retrieve_instruction without its dsp_agent branch.
route_after_retrieve_instruction_no_dsp(s) ==
    IF s.in_anomaly_det_run = "True" THEN "anomaly_det_runner_agent"
    ELSE "agent_analyser"

\* graph_init: the conditional edge out of retrieve_instruction.
route_after_retrieve_instruction(s) ==
    IF s.in_anomaly_det_run = "True" THEN "anomaly_det_runner_agent"
    ELSE IF s.in_dsp = "True" THEN "dsp_agent"
    ELSE "agent_analyser"

retrieve_instruction ==
    /\ Superstep("retrieve_instruction")
    /\ \E file \in InstructionFiles :
         LET selected_theme == state.intent_category IN
         IF ~Truthy(selected_theme) THEN Raise            \* ValueError
         ELSE IF selected_theme = "dsp_support"
         THEN /\ state' = [state EXCEPT !.in_dsp = "True"]
              /\ pc' = route_after_retrieve_instruction(state')
         ELSE IF selected_theme = "anomaly_det_run"
         THEN /\ state' = [state EXCEPT !.in_anomaly_det_run = "True"]
              /\ pc' = route_after_retrieve_instruction(state')
         ELSE IF file # "has_theme" THEN Raise  \* RuntimeError / ValueError
         ELSE /\ state' = [state EXCEPT !.instruction_block = "block"]
              /\ pc' = route_after_retrieve_instruction(state')
    /\ UNCHANGED <<use_memory, store, pending, response, history,
                   prev_mid_analysis>>
    /\ UNCHANGED offgraph_vars

\* ---------------------------------------------------------------- dsp_agent
\* dsp_agent_with_state: appends the answer; dsp_agent itself catches its
\* failures and answers with an apology text.
dsp_agent ==
    /\ Superstep("dsp_agent")
    /\ state' = [state EXCEPT
                   !.messages = Append(state.messages, Message("ai", "text"))]
    /\ pc' = "END"
    /\ UNCHANGED <<use_memory, store, pending, response, history,
                   prev_mid_analysis>>
    /\ UNCHANGED offgraph_vars

\* ----------------------------------------------------------- agent_analyser
\* route_after_analyser going on to code generation whatever the flag says.
route_after_analyser_always(s) == "code_generator"

\* routes.py: route_after_analyser.
route_after_analyser(s) ==
    IF s.code_gen_agent_breafing_ready = "True" THEN "code_generator" ELSE "END"

\* agent_analyser: the reply either carries a <tag>...</tag> briefing or is
\* a clarifying question.
agent_analyser ==
    /\ Superstep("agent_analyser")
    /\ \E tagged \in BOOLEAN :
         IF state.instruction_block = None
         THEN Raise   \* state["instruction_block"]: KeyError
         ELSE /\ state' =
                   IF tagged
                   THEN [state EXCEPT
                           !.internal_messages = @ + 1,
                           !.code_gen_agent_breafing_ready = "True",
                           !.in_analysis = "False"]
                   ELSE [state EXCEPT
                           !.messages = Append(@, Message("ai", "text")),
                           !.internal_messages = @ + 1,
                           !.code_gen_agent_breafing_ready = "False",
                           !.in_analysis = "True"]
              /\ pc' = route_after_analyser(state')
    /\ UNCHANGED <<use_memory, store, pending, response, history,
                   prev_mid_analysis>>
    /\ UNCHANGED offgraph_vars

\* ------------------------------------------------- anomaly_det_runner_agent
\* route_after_anomaly_det_run going on to capture_result whatever the flag
\* says.
route_after_anomaly_det_run_always(s) == "capture_result"

\* routes.py: route_after_anomaly_det_run.
route_after_anomaly_det_run(s) ==
    IF s.anomaly_detection_completed = "True" THEN "capture_result" ELSE "END"

\* anomaly_det_runner_agent: load_data is called outside any try; the reply
\* has tool calls (whose results are a dict of tables, possibly empty) or is
\* a plain message.
anomaly_det_runner_agent ==
    /\ Superstep("anomaly_det_runner_agent")
    /\ \E data \in {"loaded", "file_not_found"},
          reply \in {"tool_calls_found", "tool_calls_nothing", "no_tool_calls"} :
         IF data = "file_not_found" THEN Raise
         ELSE /\ state' =
                   CASE reply = "tool_calls_found" ->
                          [state EXCEPT
                             !.result = Collection("dict", "frames"),
                             !.internal_messages = @ + 1,
                             !.anomaly_detection_completed = "True"]
                     [] reply = "tool_calls_nothing" ->
                          [state EXCEPT
                             !.result = Collection("dict", "empty"),
                             !.internal_messages = @ + 1,
                             !.anomaly_detection_completed = "True"]
                     [] OTHER ->
                          [state EXCEPT
                             !.messages = Append(@, Message("ai", "text")),
                             !.internal_messages = @ + 1,
                             !.anomaly_detection_completed = "False"]
              /\ pc' = route_after_anomaly_det_run(state')
    /\ UNCHANGED <<use_memory, store, pending, response, history,
                   prev_mid_analysis>>
    /\ UNCHANGED offgraph_vars

\* ----------------------------------------------------------- code_generator
\* code_generator_agent: one model call; the fenced block is cut out and
\* stripped, so the code kept in the state may be the empty string.
code_generator ==
    /\ Superstep("code_generator")
    /\ \E code_only \in {"", "def main(...)"} :
         state' = [state EXCEPT !.internal_messages = @ + 1,
                                !.code = code_only,
                                !.execution_error = None]
    /\ pc' = "exec_code"
    /\ gen_calls' = gen_calls + 1
    /\ UNCHANGED <<use_memory, store, pending, response, failed_attempts,
                   tool_failures, last_outcome, last_upload,
                   seen_in_analysis, prev_mid_analysis>>
    /\ UNCHANGED offgraph_vars

\* ---------------------------------------------------------------- exec_code
\* exec_code_node, lines 19-25: what the node takes for an execution error.
execution_error_of(result) ==
    IF result.type = "DataFrame" /\ "error" \in result.columns
    THEN (IF result.nrows > 0 THEN result.error ELSE "Unknown error")
    ELSE None

\* exec_code_node: the state it returns for one tool outcome.
exec_code_node(s, outcome) ==
    IF ~Truthy(s.code)
    THEN [s EXCEPT !.internal_messages = @ + 1,
                   !.execution_error = "No code generated"]
    ELSE LET result == exec_code_tool(outcome)
             execution_error == execution_error_of(result)
         IN [s EXCEPT !.internal_messages = @ + 1,
                      !.result = result,
                      !.execution_error = execution_error,
                      !.retry_count =
                          IF Truthy(execution_error) THEN @ + 1 ELSE @]

\* routes.py: route_after_exec_code.
route_after_exec_code(s) ==
    LET execution_error == s.execution_error
        retry_count == s.retry_count
        max_retries == DefaultMaxRetries
    IN IF Truthy(execution_error) /\ retry_count < max_retries
       THEN "code_generator"
       ELSE "capture_result"

\* exec_code_tool is called synchronously and without a time limit: a run
\* that does not return leaves the node, and the turn, inside the call.
exec_code ==
    /\ Superstep("exec_code")
    /\ \E outcome \in ToolOutcomes :
         IF Truthy(state.code) /\ outcome.kind = "never_returns"
         THEN /\ state' = state
              /\ last_outcome' = outcome.kind
              /\ pc' = "exec_code_blocked"
              /\ UNCHANGED <<tool_failures, failed_attempts>>
         ELSE /\ state' = exec_code_node(state, outcome)
              /\ last_outcome' =
                   IF Truthy(state.code) THEN outcome.kind ELSE "no_code"
              /\ tool_failures' =
                   IF Truthy(state.code)
                      /\ outcome.kind \in {"file_not_found", "raises"}
                   THEN tool_failures + 1 ELSE tool_failures
              /\ failed_attempts' =
                   IF Truthy(state'.execution_error)
                   THEN failed_attempts + 1 ELSE failed_attempts
              /\ pc' = route_after_exec_code(state')
    /\ UNCHANGED <<use_memory, store, pending, response, gen_calls,
                   last_upload, seen_in_analysis, prev_mid_analysis>>
    /\ UNCHANGED offgraph_vars

\* ----------------------------------------------------------- capture_result
\* capture_result: TRUE when the validator returns, FALSE when it raises
\* TypeError.
valid_result(result) ==
    \/ result.type = "DataFrame"
    \/ /\ result.type \in {"dict", "list"}
       /\ result.members \in {"empty", "frames"}

capture_result ==
    /\ Superstep("capture_result")
    /\ IF valid_result(state.result)
       THEN /\ state' = state
            /\ pc' = "summarize_result"
       ELSE Raise
    /\ UNCHANGED <<use_memory, store, pending, response, history,
                   prev_mid_analysis>>
    /\ UNCHANGED offgraph_vars

\* --------------------------------------------------------- summarize_result
\* The part of that dictionary the graph state keeps.
handle_dataframe_result(df, upload) ==
    LET model == _handle_dataframe_result(df, upload)
    IN  [type |-> model.type, status |-> model.status,
         links |-> Len(model.download_links),
         display_data |-> model.display_data,
         upload_error |-> model.upload_error, message |-> model.message,
         uploads |-> model.uploads]

\* ResultProcessor.process_result.
process_result(result, upload) ==
    CASE result.type = "DataFrame" -> handle_dataframe_result(result, upload)
      [] result.type \in {"dict", "list"} ->
           IF result.members = "empty"
           THEN [type |-> result.type, status |-> "empty", links |-> 0,
                 display_data |-> NoPreview, upload_error |-> <<>>,
                 message |-> <<"Result dictionary is empty.">>, uploads |-> 0]
           ELSE [type |-> result.type, status |-> "success",
                 links |-> IF upload = "failed" THEN 0 ELSE 1,
                 display_data |-> NoPreview, upload_error |-> <<>>,
                 message |-> <<"Multiple Results">>, uploads |-> 1]
      [] OTHER ->   \* _handle_unexpected_result: a one-cell table
           handle_dataframe_result(DataFrame({"value"}, 1, ""), upload)

summarize_result ==
    /\ Superstep("summarize_result")
    /\ \E upload \in UploadOutcomes :
         LET processed_result == process_result(state.result, upload) IN
         /\ state' = [state EXCEPT
                        !.processed_result =
                            [type |-> processed_result.type,
                             status |-> processed_result.status,
                             display_data |-> processed_result.display_data,
                             upload_error |-> processed_result.upload_error,
                             message |-> processed_result.message],
                        !.download_links = processed_result.links]
         /\ last_upload' = IF processed_result.uploads > 0 THEN upload
                           ELSE None
    /\ pc' = "final_response"
    /\ UNCHANGED <<use_memory, store, pending, response, gen_calls,
                   failed_attempts, tool_failures, last_outcome,
                   seen_in_analysis, prev_mid_analysis>>
    /\ UNCHANGED offgraph_vars

\* final_response_agent returning the reply as the whole message list.
final_response_replaces ==
    /\ Superstep("final_response")
    /\ \E content \in {"text", ""} :
         state' = [state EXCEPT
                     !.messages = <<Message("ai", content)>>]
    /\ pc' = "END"
    /\ UNCHANGED <<use_memory, store, pending, response, history,
                   prev_mid_analysis>>
    /\ UNCHANGED offgraph_vars

\* ----------------------------------------------------------- final_response
\* final_response_agent: appends the model's reply, whatever its content.
final_response ==
    /\ Superstep("final_response")
    /\ \E content \in {"text", ""} :
         state' = [state EXCEPT
                     !.messages = Append(@, Message("ai", content))]
    /\ pc' = "END"
    /\ UNCHANGED <<use_memory, store, pending, response, history,
                   prev_mid_analysis>>
    /\ UNCHANGED offgraph_vars

\* ----------------------------------------------------- end of process_message
\* The graph driver stops a run that used up its step budget.
GraphRecursionError ==
    /\ pc \in Nodes
    /\ steps >= MaxSupersteps
    /\ pc' = "raised"
    /\ UNCHANGED <<state, use_memory, steps, store, pending, response, history,
                   visited, prev_mid_analysis>>
    /\ UNCHANGED offgraph_vars

\* chat.py, lines 107-109: the content of the last AIMessage, if any.
RECURSIVE final_ai_content(_)
final_ai_content(msgs) ==
    IF msgs = << >> THEN "No response generated"
    ELSE IF msgs[Len(msgs)].type = "ai" THEN msgs[Len(msgs)].content
    ELSE final_ai_content(SubSeq(msgs, 1, Len(msgs) - 1))

\* memory_agent._save_: what a scheduled save will write.
Snapshot(s) ==
    [ in_analysis |-> IF s.in_analysis = None THEN "False" ELSE s.in_analysis ]

\* process_message after the graph run: schedule the save, build the reply.
ProcessMessageReturn ==
    /\ pc = "END"
    /\ pending' = IF use_memory THEN pending \cup {Snapshot(state)} ELSE pending
    /\ response' = final_ai_content(state.messages)
    /\ prev_mid_analysis' =
         ("code_generator" \notin visited /\ state.in_analysis = "True")
    /\ pc' = "idle"
    /\ UNCHANGED <<state, use_memory, steps, store, history, visited>>
    /\ UNCHANGED offgraph_vars

\* process_message, except clause: any exception of the run becomes HTTP 500.
ProcessMessageError ==
    /\ pc = "raised"
    /\ response' = "HTTP 500"
    /\ prev_mid_analysis' = FALSE
    /\ pc' = "idle"
    /\ UNCHANGED <<state, use_memory, steps, store, pending, history, visited>>
    /\ UNCHANGED offgraph_vars

\* The background task running memory_agent._save_ for one finished turn.
SaveTask ==
    /\ \E snap \in pending :
         /\ pending' = pending \ {snap}
         /\ store' = [turns |-> IF store.turns < MaxStored
                                THEN store.turns + 1 ELSE store.turns,
                      in_analysis |-> snap.in_analysis]
    /\ UNCHANGED <<pc, state, use_memory, steps, response, history, visited,
                   prev_mid_analysis>>
    /\ UNCHANGED offgraph_vars

Next ==
    \/ StartTurn
    \/ memory_agent
    \/ entry_router
    \/ classify_intent
    \/ retrieve_instruction
    \/ dsp_agent
    \/ agent_analyser
    \/ anomaly_det_runner_agent
    \/ code_generator
    \/ exec_code
    \/ capture_result
    \/ summarize_result
    \/ final_response
    \/ GraphRecursionError
    \/ ProcessMessageReturn
    \/ ProcessMessageError
    \/ SaveTask

Spec == Init /\ [][Next]_vars

\* ---------------------------------------- the stores, called by any identity
\* EnhancedMemoryAgent(user, partner).save_long_term_memory(preferences)
save_long_term_memory ==
    /\ \E user \in Users, partner \in Partners :
         preferences' =
            [preferences EXCEPT ![long_term_memory_path(user, partner)] =
                                   OwnedBy(user, partner)]
    /\ UNCHANGED <<caches, returned, graph_vars, det_vars, call_vars, side_vars>>

\* EnhancedMemoryAgent(user, partner).load_long_term_memory(): the stored
\* preferences, {} when there are none or the read fails.
load_long_term_memory ==
    /\ \E user \in Users, partner \in Partners, read \in {"ok", "fails"} :
         LET stored == preferences[long_term_memory_path(user, partner)]
         IN  returned' =
               Answer("long_term_memory", user, partner,
                      IF read = "fails" \/ stored = Absent
                      THEN Empty ELSE stored)
    /\ UNCHANGED <<preferences, caches, graph_vars, det_vars, call_vars, side_vars>>

\* AdvertiserCache.get_advertisers(user_email, partner_name, force_refresh)
get_advertisers ==
    /\ \E user_email \in Users, partner_name \in Partners,
          force_refresh \in BOOLEAN, older_than_ttl \in BOOLEAN,
          fetch \in {"ok", "fails"} :
         LET cache_key == _get_cache_key(user_email, partner_name)
             cached_data == caches[cache_key]
             cache_expired == cached_data = Absent \/ older_than_ttl
             answer(v) == Answer("advertisers", user_email, partner_name, v)
         IN  IF cache_expired \/ force_refresh
             THEN IF fetch = "ok"
                  THEN /\ caches' = [caches EXCEPT ![cache_key] =
                                        OwnedBy(user_email, partner_name)]
                       /\ returned' = answer(OwnedBy(user_email, partner_name))
                  ELSE /\ caches' = caches
                       /\ returned' = answer(IF cached_data # Absent
                                             THEN cached_data ELSE Empty)
             ELSE /\ caches' = caches
                  /\ returned' = answer(cached_data)
    /\ UNCHANGED <<preferences, graph_vars, det_vars, call_vars, side_vars>>

KeyedNext ==
    \/ save_long_term_memory
    \/ load_long_term_memory
    \/ get_advertisers

KeyedSpec == Init /\ [][KeyedNext]_vars

\* ------------------------------------------------------ the detection tools
detect_campaign_anomalies ==
    /\ det_input.entity = "campaign"
    /\ det_output = NoOutput
    /\ det_result' = selective_detection(det_input)
    /\ det_output' = tool_answer(det_input, campaign_check_types(det_input),
                                 FALSE)
    /\ UNCHANGED <<det_input, graph_vars, keyed_vars, call_vars, side_vars>>

detect_line_item_anomalies ==
    /\ det_input.entity = "line_item"
    /\ det_output = NoOutput
    /\ det_result' = selective_detection(det_input)
    /\ det_output' = tool_answer(det_input, line_item_check_types(det_input),
                                 TRUE)
    /\ UNCHANGED <<det_input, graph_vars, keyed_vars, call_vars, side_vars>>

detect_insertion_order_anomalies ==
    /\ det_input.entity = "insertion_order"
    /\ det_output = NoOutput
    /\ det_result' = selective_detection(det_input)
    /\ det_output' = tool_answer(det_input,
                                 insertion_order_check_types(det_input), FALSE)
    /\ UNCHANGED <<det_input, graph_vars, keyed_vars, call_vars, side_vars>>

\* One tool call with arguments and tables drawn from the bounded sets.
DetInit ==
    /\ Idle
    /\ \E e \in Entities :
         \E t \in SeqsUpTo(Rows(e), MaxTableRows),
            c \in SeqsUpTo(RequestIds(e), MaxRequested),
            nc \in NamingConventions(e), em \in ExpectedMarkups(e),
            nb \in NamingBatches(e), sb \in SetupBatches(e) :
           det_input = [entity |-> e, table |-> t, check_types |-> c,
                        naming_convention |-> nc, expected_markup |-> em,
                        naming_batch |-> nb, setup_batch |-> sb]
    /\ det_result = NoResult
    /\ det_output = NoOutput
    /\ NoCalls

DetNext ==
    \/ detect_campaign_anomalies
    \/ detect_line_item_anomalies
    \/ detect_insertion_order_anomalies

DetSpec == DetInit /\ [][DetNext]_vars

\* ----------------------------------------------------- the check predicates
apply_check_kpi_configuration ==
    /\ pred_input.predicate = "check_kpi_configuration"
    /\ pred_result = NoPair
    /\ pred_result' = check_kpi_configuration(pred_input.row)
    /\ UNCHANGED <<pred_input, norm_vars, graph_vars, keyed_vars, det_vars,
                   side_vars>>

apply_check_li_safeguards ==
    /\ pred_input.predicate = "check_li_safeguards"
    /\ pred_result = NoPair
    /\ pred_result' = check_li_safeguards(pred_input.row)
    /\ UNCHANGED <<pred_input, norm_vars, graph_vars, keyed_vars, det_vars,
                   side_vars>>

apply_check_li_inventory_consistency ==
    /\ pred_input.predicate = "check_li_inventory_consistency"
    /\ pred_result = NoPair
    /\ pred_result' = check_li_inventory_consistency(pred_input.row)
    /\ UNCHANGED <<pred_input, norm_vars, graph_vars, keyed_vars, det_vars,
                   side_vars>>

apply_check_cpm_capping ==
    /\ pred_input.predicate = "check_cpm_capping"
    /\ pred_result = NoPair
    /\ pred_result' = check_cpm_capping(pred_input.row)
    /\ UNCHANGED <<pred_input, norm_vars, graph_vars, keyed_vars, det_vars,
                   side_vars>>

\* One predicate applied to one row, or the line item tool on a table of
\* one row, with the row drawn from the bounded tables.
PredInit ==
    /\ Idle
    /\ \/ \E row \in CampaignRows :
            pred_input = [predicate |-> "check_kpi_configuration",
                          row |-> row]
       \/ \E row \in InsertionOrderRows :
            pred_input = [predicate |-> "check_cpm_capping", row |-> row]
       \/ \E p \in {"check_li_safeguards", "check_li_inventory_consistency",
                    "detect_line_item_anomalies"} :
            \E targeting \in Targetings, status \in Statuses, type \in Types,
               name \in LineItemNames, io_name \in IoNames,
               enabled \in EnabledCells,
               exposures \in {NaN, Num(0), Num(30)},
               amount \in {Num(0), Num(10)},
               period \in {NaN, Str(<<"Days">>)},
               trueview_enabled \in {Missing, Bool(TRUE)} :
              pred_input =
                  [predicate |-> p,
                   row |-> LineItem(targeting, status, type, name, io_name,
                                    enabled, exposures, amount, period,
                                    trueview_enabled)]
    /\ pred_result = NoPair
    /\ det_input = IF pred_input.predicate = "detect_line_item_anomalies"
                   THEN default_call(pred_input.row) ELSE NoInput
    /\ det_result = NoResult
    /\ det_output = NoOutput
    /\ norm_input = NoTable
    /\ norm_result = NoModel
    /\ norm_members = NoMembers
    /\ norm_summary = NoSummary

PredNext ==
    \/ apply_check_kpi_configuration
    \/ apply_check_li_safeguards
    \/ apply_check_li_inventory_consistency
    \/ apply_check_cpm_capping
    \/ detect_line_item_anomalies

PredSpec == PredInit /\ [][PredNext]_vars

\* ------------------------------------------------------ the result normalizer
handle_dataframe ==
    /\ norm_input.call = "_handle_dataframe_result"
    /\ norm_result = NoModel
    /\ norm_result' = _handle_dataframe_result(norm_input.df, norm_input.upload)
    /\ UNCHANGED <<norm_input, norm_members, norm_summary, pred_vars,
                   graph_vars, keyed_vars, det_vars,
                   side_vars>>

format_dataframe_for_display ==
    /\ norm_input.call = "_format_dataframe_for_display"
    /\ norm_result = NoModel
    /\ norm_result' =
           Model("display", None, <<>>,
                 _format_dataframe_for_display(norm_input.df), <<>>, <<>>, 0)
    /\ UNCHANGED <<norm_input, norm_members, norm_summary, pred_vars,
                   graph_vars, keyed_vars, det_vars,
                   side_vars>>

\* One table handed to the normalizer, or to its renderer alone, or one
\* mapping or list, with the replies the upload service would give.
NormInit ==
    /\ Idle
    /\ det_input = NoInput
    /\ det_result = NoResult
    /\ det_output = NoOutput
    /\ pred_input = NoCheck
    /\ pred_result = NoPair
    /\ \/ /\ \E df \in Tables, upload \in UploadOutcomes :
               norm_input = [call |-> "_handle_dataframe_result", df |-> df,
                             upload |-> upload]
          /\ norm_members = NoMembers
       \/ /\ \E df \in Tables :
               norm_input = [call |-> "_format_dataframe_for_display",
                             df |-> df, upload |-> None]
          /\ norm_members = NoMembers
       \/ /\ norm_input = NoTable
          /\ \E type \in {"dict", "list"}, n \in 0..MaxMembers :
               \E items \in [1..n -> MemberItems] :
                  norm_members = [type |-> type, items |-> items]
    /\ norm_result = NoModel
    /\ norm_summary = NoSummary

\* _handle_dict_result(result) / _handle_list_result(result, label)
handle_collection ==
    /\ norm_members.type # None
    /\ norm_summary = NoSummary
    /\ norm_summary' = _handle_collection(norm_members.type,
                                          norm_members.items)
    /\ UNCHANGED <<norm_input, norm_result, norm_members, pred_vars,
                   graph_vars, keyed_vars, det_vars, side_vars>>

NormNext ==
    \/ handle_dataframe
    \/ format_dataframe_for_display
    \/ handle_collection

NormSpec == NormInit /\ [][NormNext]_vars

\* ------------------------------------------------- the evaluation service
\* POST /evaluation/run: refused while the row says ongoing, else the
\* pipeline is started in a thread of its own, as a preview or as a full run.
run_evaluation(r) ==
    /\ eval_pc[r] = "new"
    /\ IF eval_status = "ongoing"
       THEN eval_pc' = [eval_pc EXCEPT ![r] = "conflict"]
       ELSE \E kind \in {"preview", "full"} :
              eval_pc' = [eval_pc EXCEPT ![r] = kind]
    /\ UNCHANGED <<eval_status, graph_vars, keyed_vars, det_vars, call_vars,
                   conv_vars, glob_vars>>

\* run_evaluation_pipeline up to start_evaluation: the dataset is read, an
\* empty dataset and a preview end in complete_evaluation, an exception ends
\* in complete_evaluation(success=False).
read_eval_dataset(r) ==
    /\ eval_pc[r] \in {"preview", "full"}
    /\ \E df \in {"empty", "rows", "raises"} :
         IF df # "rows"
         THEN /\ eval_status' = "failed"
              /\ eval_pc' = [eval_pc EXCEPT ![r] = "returned"]
         ELSE IF eval_pc[r] = "preview"
         THEN /\ eval_status' = "completed"
              /\ eval_pc' = [eval_pc EXCEPT ![r] = "returned"]
         ELSE /\ eval_status' = eval_status
              /\ eval_pc' = [eval_pc EXCEPT ![r] = "start_evaluation"]
    /\ UNCHANGED <<graph_vars, keyed_vars, det_vars, call_vars,
                   conv_vars, glob_vars>>

\* start_evaluation, first statement: SELECT status.  The row is read
\* without a lock, so other connections can read and write it before the
\* UPDATE of this one.
start_evaluation_select(r) ==
    /\ eval_pc[r] = "start_evaluation"
    /\ eval_pc' = [eval_pc EXCEPT ![r] =
                     IF eval_status = "ongoing" THEN "returned"
                     ELSE "update"]
    /\ UNCHANGED <<eval_status, graph_vars, keyed_vars, det_vars, call_vars,
                   conv_vars, glob_vars>>

\* start_evaluation, second statement: UPDATE ... SET status = 'ongoing';
\* the pipeline then goes on to the test cases.
start_evaluation_update(r) ==
    /\ eval_pc[r] = "update"
    /\ eval_status' = "ongoing"
    /\ eval_pc' = [eval_pc EXCEPT ![r] = "processing"]
    /\ UNCHANGED <<graph_vars, keyed_vars, det_vars, call_vars,
                   conv_vars, glob_vars>>

\* The test cases have been processed, or an exception ended them:
\* complete_evaluation.
complete_evaluation(r) ==
    /\ eval_pc[r] = "processing"
    /\ \E success \in BOOLEAN :
         eval_status' = IF success THEN "completed" ELSE "failed"
    /\ eval_pc' = [eval_pc EXCEPT ![r] = "returned"]
    /\ UNCHANGED <<graph_vars, keyed_vars, det_vars, call_vars,
                   conv_vars, glob_vars>>

EvalNext ==
    \E r \in EvalRequests :
        \/ run_evaluation(r)
        \/ read_eval_dataset(r)
        \/ start_evaluation_select(r)
        \/ start_evaluation_update(r)
        \/ complete_evaluation(r)

EvalSpec == Init /\ [][EvalNext]_vars

\* ------------------------------------------------ the chat routes' actions
\* process_message without the use_memory test around the save.
process_message_always_saves(t) ==
    /\ chat[t].pc = "new"
    /\ \A earlier \in 1..(t - 1) : chat[earlier].pc # "new"
    /\ \E key \in ConvKeys, content \in Contents, memory \in BOOLEAN :
         LET stored == preferences[long_term_memory_path(key[1], key[2])]
         IN  /\ chat' = [chat EXCEPT ![t] =
                  [pc |-> "saving",
                   key |-> key,
                   use_memory |-> memory,
                   messages |-> <<Message("human", content),
                                  Message("ai", "ok")>>,
                   chat_history |->
                      IF memory
                      THEN get_formatted_conversation_history(
                              conversations[key], USE_POSTGRES_STORAGE)
                      ELSE <<>>,
                   long_term_memory |->
                      IF memory /\ stored # Absent THEN stored ELSE Empty]]
             /\ conv_cleared' = conv_cleared \ {key}
    /\ UNCHANGED <<USE_POSTGRES_STORAGE, conversations, graph_vars,
                   keyed_vars, det_vars, call_vars, eval_vars,
                   glob_vars>>

\* routes/chat.py process_message: memory_agent loads the history unless
\* use_memory is off, the graph answers, and the save is handed to a
\* background task that nothing awaits.
process_message(t) ==
    /\ chat[t].pc = "new"
    /\ \A earlier \in 1..(t - 1) : chat[earlier].pc # "new"
    /\ \E key \in ConvKeys, content \in Contents, memory \in BOOLEAN :
         LET stored == preferences[long_term_memory_path(key[1], key[2])]
         IN  /\ chat' = [chat EXCEPT ![t] =
                  [pc |-> IF memory THEN "saving" ELSE "done",
                   key |-> key,
                   use_memory |-> memory,
                   messages |-> <<Message("human", content),
                                  Message("ai", "ok")>>,
                   chat_history |->
                      IF memory
                      THEN get_formatted_conversation_history(
                              conversations[key], USE_POSTGRES_STORAGE)
                      ELSE <<>>,
                   long_term_memory |->
                      IF memory /\ stored # Absent THEN stored ELSE Empty]]
             /\ conv_cleared' = conv_cleared \ {key}
    /\ UNCHANGED <<USE_POSTGRES_STORAGE, conversations, graph_vars,
                   keyed_vars, det_vars, call_vars, eval_vars,
                   glob_vars>>

\* The background task of a turn: EnhancedMemoryAgent._save_(final_state),
\* with the long-term memory update it submits.
save_conversation(t) ==
    /\ chat[t].pc = "saving"
    /\ LET key == chat[t].key
       IN  /\ conversations' =
                [conversations EXCEPT ![key] =
                    _save_(@, chat[t].messages, USE_POSTGRES_STORAGE)]
           /\ \E updated \in BOOLEAN :
                preferences' =
                   IF updated
                   THEN [preferences EXCEPT
                           ![long_term_memory_path(key[1], key[2])] =
                              OwnedBy(key[1], key[2])]
                   ELSE preferences
    /\ chat' = [chat EXCEPT ![t].pc = "done"]
    /\ UNCHANGED <<USE_POSTGRES_STORAGE, conv_cleared, caches, returned,
                   graph_vars, det_vars, call_vars, eval_vars, glob_vars>>

\* routes/chat.py reset_conversation
reset_conversation ==
    /\ \E key \in ConvKeys :
         /\ conversations' =
              [k \in ConvKeys |->
                 delete_all_conversations(conversations, key, k,
                                          USE_POSTGRES_STORAGE)]
         /\ conv_cleared' = conv_cleared \cup {key}
    /\ UNCHANGED <<USE_POSTGRES_STORAGE, chat, graph_vars, keyed_vars,
                   det_vars, call_vars, eval_vars, glob_vars>>

ConvNext ==
    \/ \E t \in ConvTurns : process_message(t)
    \/ \E t \in ConvTurns : save_conversation(t)
    \/ reset_conversation

\* Either deployment, before any request.
ConvInit ==
    /\ \E postgres \in BOOLEAN : Deployed(postgres)
    /\ det_input = NoInput
    /\ det_result = NoResult
    /\ det_output = NoOutput
    /\ NoCalls

ConvSpec == ConvInit /\ [][ConvNext]_vars

\* ------------------------------------- concurrent anomaly detection runs
\* anomaly_det_runner_agent up to the model call: the tables of the turn's
\* (user, partner) are loaded into the module globals.
load_data(r) ==
    /\ runner[r].pc = "new"
    /\ \E key \in Identities :
         /\ runner' = [runner EXCEPT ![r].pc = "loaded", ![r].key = key]
         /\ _line_items_df' = key
         /\ _campaigns_df' = key
         /\ _insertion_orders_df' = key
    /\ UNCHANGED <<graph_vars, keyed_vars, det_vars, call_vars, eval_vars,
                   conv_vars>>

\* The model answered: with a tool call, and the tool reads the global of
\* its entity, or without one.
invoke_tool(r) ==
    /\ runner[r].pc = "loaded"
    /\ \E tool \in Entities \cup {None} :
         runner' = [runner EXCEPT
            ![r].pc = "called",
            ![r].tool = tool,
            ![r].observed =
               CASE tool = "campaign" -> _campaigns_df
                 [] tool = "line_item" -> _line_items_df
                 [] tool = "insertion_order" -> _insertion_orders_df
                 [] OTHER -> Unread]
    /\ UNCHANGED <<_campaigns_df, _line_items_df, _insertion_orders_df,
                   graph_vars, keyed_vars, det_vars, call_vars, eval_vars,
                   conv_vars>>

\* "Clean up global variables" at the end of anomaly_det_runner_agent.
clean_up(r) ==
    /\ runner[r].pc = "called"
    /\ runner' = [runner EXCEPT ![r].pc = "done"]
    /\ _campaigns_df' = NoTables
    /\ _line_items_df' = NoTables
    /\ _insertion_orders_df' = NoTables
    /\ UNCHANGED <<graph_vars, keyed_vars, det_vars, call_vars, eval_vars,
                   conv_vars>>

\* A finished run makes room for the next turn.
next_turn(r) ==
    /\ runner[r].pc = "done"
    /\ runner' = [runner EXCEPT ![r] = NoRunner]
    /\ UNCHANGED <<_campaigns_df, _line_items_df, _insertion_orders_df,
                   graph_vars, keyed_vars, det_vars, call_vars, eval_vars,
                   conv_vars>>

RunnerNext ==
    \E r \in Runners :
       \/ load_data(r)
       \/ invoke_tool(r)
       \/ clean_up(r)
       \/ next_turn(r)

RunnerSpec == Init /\ [][RunnerNext]_vars

\* ================================================================== claims

\* C1: within one turn code_generator is invoked at most max_retries + 1
\* times, whatever the executions of the turn do.
C1_GenerationBound == gen_calls <= DefaultMaxRetries + 1

\* C2: the generate/execute loop never runs on without end: a turn that
\* entered code_generator and is over has visited capture_result.
C2_LoopReachesCapture ==
    (pc \in {"END", "raised"} /\ "code_generator" \in visited)
        => "capture_result" \in visited

\* C3: when the generate/execute loop exits to capture_result, retry_count
\* equals the number of failed execution attempts of the turn and is at most
\* max_retries; and no step of a turn decreases retry_count.
C3_RetryCountIsFailures ==
    [][ /\ (pc = "exec_code" /\ pc' = "capture_result")
            => /\ state'.retry_count = failed_attempts'
               /\ state'.retry_count <= DefaultMaxRetries
        /\ (pc \in Nodes /\ pc' # "raised")
            => state'.retry_count >= state.retry_count ]_vars

\* C4: with max_retries = 2, a turn whose every execution attempt fails in
\* the tool has produced exactly 3 code bodies when it leaves the loop, ends
\* with processed_result.status = "error", and answers with a non-empty
\* response.
C4_ThreeBodiesThenError ==
    ("exec_code" \in visited /\ tool_failures = gen_calls /\ gen_calls > 0)
        => /\ (pc = "capture_result" => gen_calls = 3)
           /\ (state.processed_result # None
                 => state.processed_result.status = "error")
           /\ (pc = "idle" => response \notin {None, "", "HTTP 500"})

\* C5: after exec_code the next node is code_generator iff execution_error
\* is set and retry_count < max_retries; otherwise the turn goes on through
\* capture_result, summarize_result, final_response and END in that order
\* (after a failure with the one-row error marker as result) and is not
\* aborted.  Steps cut off by the driver's step budget and executions that
\* do not return are left aside.
C5_ForwardPath ==
    [][ steps < MaxSupersteps =>
        /\ (pc = "exec_code" /\ pc' # pc /\ last_outcome' # "never_returns")
             => /\ (pc' = "code_generator") <=>
                     (Truthy(state'.execution_error)
                        /\ state'.retry_count < DefaultMaxRetries)
                /\ pc' \in {"code_generator", "capture_result"}
                /\ (pc' = "capture_result" /\ Truthy(state'.execution_error))
                     => /\ state'.result.type = "DataFrame"
                        /\ state'.result.columns = {"error"}
                        /\ state'.result.nrows = 1
                        /\ state'.result.error = state'.execution_error
        /\ (pc = "capture_result" /\ "exec_code" \in visited /\ pc' # pc)
             => pc' = "summarize_result"
        /\ (pc = "summarize_result" /\ pc' # pc) => pc' = "final_response"
        /\ (pc = "final_response" /\ pc' # pc) => pc' = "END" ]_vars

\* C6: when the tables cannot be loaded (data file not found) during
\* exec_code, the turn goes straight to capture_result and retry_count is
\* not incremented.
C6_DataNotFoundShortCircuits ==
    [][ (pc = "exec_code" /\ pc' # pc /\ last_outcome' = "file_not_found")
          => /\ pc' = "capture_result"
             /\ state'.retry_count = state.retry_count ]_vars

\* C7: when the generated code ran without raising but handed back something
\* that is not a table, a list of tables or a mapping of tables (or defined
\* no main), execution_error is set and, while retry_count < max_retries,
\* code_generator runs again.
C7_ShapeViolationRetried ==
    [][ (/\ pc = "exec_code" /\ pc' # pc
         /\ last_outcome' \in {"returns", "no_main"}
         /\ ~valid_result(state'.result))
          => /\ Truthy(state'.execution_error)
             /\ (state'.retry_count < DefaultMaxRetries
                   => pc' = "code_generator") ]_vars

\* C8: no failure inside a node leaves the graph as an exception: a run
\* that is within its step budget never ends raised, and the caller never
\* gets an error instead of a response.
C8_NoFailurePropagates ==
    /\ (steps < MaxSupersteps => pc # "raised")
    /\ (steps < MaxSupersteps => response # "HTTP 500")

\* C9: if the previous turn of the conversation ended in agent_analyser with
\* in_analysis = True, entry_router sends this turn to agent_analyser, not
\* to classify_intent.  Stated for the most favourable case: this turn uses
\* memory and the flag of the previous turn was already persisted when
\* memory_agent loaded the conversation.
C9_ResumeAnalysis ==
    [][ (/\ pc = "entry_router" /\ pc' # pc
         /\ prev_mid_analysis /\ use_memory
         /\ seen_in_analysis = "True")
          => pc' = "agent_analyser" ]_vars

\* C10: classify_intent ends either with cleared_intent = True and one of
\* the six categories, going on to retrieve_instruction, or with
\* cleared_intent = False, no category and one assistant message appended,
\* ending the turn.
C10_ClassifyOutcomes ==
    [][ (pc = "classify_intent" /\ pc' # pc)
          => \/ /\ state'.cleared_intent = "True"
                /\ state'.intent_category \in IntentCategories
                /\ state'.messages = state.messages
                /\ pc' = "retrieve_instruction"
             \/ /\ state'.cleared_intent = "False"
                /\ state'.intent_category = None
                /\ state'.messages =
                     Append(state.messages, Message("ai", "text"))
                /\ pc' = "END" ]_vars

\* C11: after retrieve_instruction has run, the turn goes to the node that
\* intent_category determines: dsp_support to dsp_agent (which ends the
\* turn), anomaly_det_run to anomaly_det_runner_agent, each of the four
\* check categories to agent_analyser; the first two never fail.
AnalysisCategories ==
    {"targeting_check", "budget_check", "quality_check", "other_check"}

C11_RouteByCategory ==
    [][ /\ (pc = "retrieve_instruction" /\ pc' \notin {pc, "raised"})
            => \/ /\ state.intent_category = "dsp_support"
                  /\ pc' = "dsp_agent"
               \/ /\ state.intent_category = "anomaly_det_run"
                  /\ pc' = "anomaly_det_runner_agent"
               \/ /\ state.intent_category \in AnalysisCategories
                  /\ pc' = "agent_analyser"
        /\ (pc = "retrieve_instruction" /\ pc' = "raised")
            => state.intent_category \in AnalysisCategories
        /\ (pc = "dsp_agent" /\ pc' # pc) => pc' = "END" ]_vars

\* A turn classified dsp_support stands at dsp_agent after
\* retrieve_instruction.
C11_Witness ==
    /\ pc = "dsp_agent"
    /\ state.intent_category = "dsp_support"
    /\ "retrieve_instruction" \in visited

\* C12: code_generator (and exec_code) is visited only in a turn in which
\* agent_analyser has set the briefing-ready flag to True; when
\* agent_analyser leaves the flag False the turn is over and has visited
\* neither code_generator nor exec_code.
C12_GenerationOnlyWhenBriefingReady ==
    /\ (pc \in {"code_generator", "exec_code"}
          \/ visited \cap {"code_generator", "exec_code"} # {})
         => /\ "agent_analyser" \in visited
            /\ state.code_gen_agent_breafing_ready = "True"
    /\ state.code_gen_agent_breafing_ready = "False"
         => /\ pc \in {"END", "idle"}
            /\ visited \cap {"code_generator", "exec_code"} = {}

\* A turn stands in exec_code after a briefing was produced.
C12_Witness ==
    /\ pc = "exec_code"
    /\ "agent_analyser" \in visited
    /\ state.code_gen_agent_breafing_ready = "True"

\* C13: after anomaly_det_runner_agent the turn goes to capture_result
\* exactly when anomaly_detection_completed is True and otherwise ends; a
\* turn on the anomaly path never visits code_generator or exec_code; and a
\* completed run that found nothing goes on through capture_result and
\* summarize_result to final_response.
AnomalyPath == state.in_anomaly_det_run = "True"

C13_AnomalyPath ==
    [][ /\ (pc = "anomaly_det_runner_agent" /\ pc' # pc)
            => /\ (pc' = "capture_result")
                    <=> (state'.anomaly_detection_completed = "True")
               /\ pc' \in {"capture_result", "END", "raised"}
        /\ AnomalyPath => pc' \notin {"code_generator", "exec_code"}
        /\ (AnomalyPath /\ pc = "capture_result" /\ pc' # pc)
            => pc' = "summarize_result"
        /\ (AnomalyPath /\ pc = "summarize_result" /\ pc' # pc)
            => pc' = "final_response" ]_vars

\* A completed anomaly run without findings stands at final_response.
C13_Witness ==
    /\ pc = "final_response"
    /\ AnomalyPath
    /\ state.anomaly_detection_completed = "True"
    /\ state.result = Collection("dict", "empty")

\* C14: every visit of a node that returns extends exactly one of the two
\* channels: either one entry is appended to internal_messages or one
\* message is appended to messages, never both and never neither.
C14_OneChannelPerVisit ==
    [][ (pc \in Nodes /\ steps' = steps + 1 /\ pc' # "raised")
          => LET user_visible == Len(state'.messages) > Len(state.messages)
                 internal == state'.internal_messages > state.internal_messages
             IN  (user_visible \/ internal) /\ ~(user_visible /\ internal) ]_vars

\* C15: turns of one (user, partner) are serialized with respect to
\* persistence: a turn that uses memory neither loads the history
\* (memory_agent) nor schedules its own save (the return of process_message)
\* while the background save of an earlier turn is still in flight.
C15_PersistenceSerialized ==
    [][ /\ (pc = "memory_agent" /\ pc' = "entry_router" /\ use_memory)
             => pending = {}
        /\ (pc = "END" /\ pc' = "idle" /\ use_memory)
             => pending = {} ]_vars

\* C16: a value written to the long-term-memory store or the advertiser
\* cache under one (user, partner) is never returned to a different
\* (user, partner), a different partner of the same user included.  Two
\* spellings of a partner name that differ only in case or surrounding
\* blanks are taken as the same partner.
C16_KeyedByUserAndPartner ==
    (returned.store # None /\ returned.value # Empty)
        => /\ returned.value.user = returned.user
           /\ lower_strip(returned.value.partner) = lower_strip(returned.partner)

\* C17: an execution attempt that does not return is cut off by the
\* per-attempt timeout and handled like a raised exception: the visit of
\* exec_code ends with execution_error set and retry_count incremented, and
\* the turn goes on to code_generator or capture_result.
C17_AttemptTimesOut ==
    [][ (pc = "exec_code" /\ last_outcome' = "never_returns" /\ steps' # steps)
          => /\ Truthy(state'.execution_error)
             /\ state'.retry_count = state.retry_count + 1
             /\ pc' \in {"code_generator", "capture_result"} ]_vars

\* The checks selected for a call: the requested list, or the entity's
\* default set when nothing is requested.
SelectedChecks(input) ==
    CASE input.entity = "campaign" -> Range(campaign_check_types(input))
      [] input.entity = "line_item" -> Range(line_item_check_types(input))
      [] OTHER -> Range(insertion_order_check_types(input))

\* A selected per-row check returned is_abnormal = true for the row.
FailsPerRow(input, row, check_type) ==
    /\ check_type \in SelectedChecks(input) \cap PerRowChecks(input.entity)
    /\ check_type = "markup" => input.expected_markup # None
    /\ check_func(check_type, row) = "abnormal"

\* The row's Name is a key of a selected batched naming result.
NamedByBatch(input, row, check_type) ==
    /\ input.entity = "line_item"
    /\ check_type \in SelectedChecks(input)
    /\ \/ /\ check_type = "naming"
          /\ input.naming_convention # None
          /\ ~input.naming_batch.raises
          /\ row.Name \in input.naming_batch.keys
       \/ /\ check_type = "naming_setup"
          /\ ~input.setup_batch.raises
          /\ row.Name \in input.setup_batch.keys

RowFails(input, row) ==
    \/ \E check_type \in PerRowChecks(input.entity) :
         FailsPerRow(input, row, check_type)
    \/ \E check_type \in {"naming", "naming_setup"} :
         NamedByBatch(input, row, check_type)

\* C18: for each run_selective_*_detection and every input table, the
\* result consists of exactly the input rows, in input order, for which a
\* selected per-row check returned is_abnormal = true or whose Name is a key
\* of a selected batched naming result.
C18_FilterExact ==
    det_result.status # None
        => /\ det_result.status = "returned"
           /\ LET fails(row) == RowFails(det_input, row)
              IN  [i \in 1..Len(det_result.rows) |-> det_result.rows[i].row]
                     = SelectSeq(det_input.table, fails)

\* str.split(';')
RECURSIVE split(_)
split(text) ==
    IF text = <<>> THEN << <<>> >>
    ELSE LET rest == split(Tail(text))
         IN  IF Head(text) = ";" THEN << <<>> >> \o rest
             ELSE << <<Head(text)>> \o rest[1] >> \o Tail(rest)

NonEmpty(fragment) == fragment # <<>>

\* The failing checks of a row in the order the checks are evaluated: the
\* per-row checks in the order of the list of check functions, then the
\* batched naming results.
RECURSIVE FailingOf(_, _, _)
FailingOf(input, row, order) ==
    IF order = <<>> THEN <<>>
    ELSE (IF \/ FailsPerRow(input, row, Head(order))
             \/ NamedByBatch(input, row, Head(order))
          THEN <<Head(order)>> ELSE <<>>)
         \o FailingOf(input, row, Tail(order))

EvaluationOrder(input) ==
    CASE input.entity = "campaign" ->
           LET known(check_type) == check_type \in PerRowChecks("campaign")
           IN  SelectSeq(campaign_check_types(input), known)
      [] input.entity = "line_item" -> LINE_ITEM_CHECK_TYPES
      [] OTHER -> INSERTION_ORDER_CHECK_TYPES

\* C19: for every row of a detection result with k failing checks,
\* anomalies_description splits on ";" into exactly k non-empty fragments,
\* one per failing check, in check-evaluation order.  The empty fragments
\* that a closing ";" leaves behind are not counted.
C19_OneFragmentPerFailingCheck ==
    \A i \in 1..Len(det_result.rows) :
       LET r == det_result.rows[i]
           failing == FailingOf(det_input, r.row, EvaluationOrder(det_input))
           fragments == SelectSeq(split(r.anomalies_description), NonEmpty)
       IN  /\ Len(fragments) = Len(failing)
           /\ \A j \in 1..Len(fragments) : failing[j] \in Range(fragments[j])

\* C20: unknown check identifiers are ignored without error: adding an
\* identifier the entity does not define to a requested list leaves the
\* detection result unchanged, and a list of unknown identifiers only yields
\* an empty result, not a failure.  Stated for tables that have rows.
C20_UnknownIgnored ==
    (det_result.status # None /\ det_input.table # <<>>)
        => /\ selective_detection(
                 [det_input EXCEPT !.check_types = @ \o <<"bogus">>])
                = det_result
           /\ selective_detection(
                 [det_input EXCEPT !.check_types = <<"bogus">> \o @])
                = det_result
           /\ Range(det_input.check_types) = {"bogus"}
                => det_result = Detected(<<>>)

\* The full fixed set of an entity type for a call that requests nothing:
\* every identifier of the entity, the batched naming-convention check only
\* with a naming convention and the markup check only with a target.
DefaultSet(input) ==
    (CASE input.entity = "campaign" -> Range(CAMPAIGN_CHECK_TYPES)
       [] input.entity = "line_item" -> Range(LINE_ITEM_CHECK_TYPES)
       [] OTHER -> Range(INSERTION_ORDER_CHECK_TYPES))
    \ ((IF input.naming_convention = None THEN {"naming"} ELSE {})
       \cup (IF input.expected_markup = None THEN {"markup"} ELSE {}))

\* C21: when the requested check_types is empty or absent, the tool runs
\* the full fixed set of checks of its entity type, the batched naming check
\* being part of it only when the naming convention was supplied.
C21_DefaultsRunFullSet ==
    (det_output.status = "success" /\ det_input.check_types = <<>>)
        => checks_evaluated(det_input) = DefaultSet(det_input)

\* A per-row check that the call evaluates raises on the row.
RaisesOn(input, row) == row.raising \cap checks_evaluated(input) # {}

\* C22: if a per-row check raises for some row, that check counts as not
\* abnormal for that row and the call goes on: it returns, the result holds
\* exactly the rows that fail another check (of the same row or of any other
\* row), each description names every failing check of its row, and the
\* tool answers success.
C22_RaisingCheckSkipped ==
    (/\ det_result.status # None
     /\ \E i \in 1..Len(det_input.table) : RaisesOn(det_input, det_input.table[i]))
        => /\ det_result.status = "returned"
           /\ det_output.status = "success"
           /\ LET fails(row) == RowFails(det_input, row)
              IN  [i \in 1..Len(det_result.rows) |-> det_result.rows[i].row]
                     = SelectSeq(det_input.table, fails)
           /\ \A i \in 1..Len(det_result.rows) :
                LET r == det_result.rows[i]
                IN  /\ Range(FailingOf(det_input, r.row,
                                       EvaluationOrder(det_input)))
                          \subseteq Range(r.anomalies_description)
                    /\ r.row.raising \cap Range(r.anomalies_description) = {}

\* A row whose first check raises and whose second check fails is in the
\* result, followed by another failing row.
C22_Witness ==
    /\ det_result.status = "returned"
    /\ Len(det_input.table) = 2
    /\ RaisesOn(det_input, det_input.table[1])
    /\ det_input.table[1].abnormal \cap checks_evaluated(det_input) # {}
    /\ Len(det_result.rows) = 2
    /\ det_result.rows[1].row = det_input.table[1]

\* C23: none of check_kpi_configuration, check_li_safeguards and
\* check_li_inventory_consistency raises on a row whose fields may be
\* missing or NaN: each returns an (is_abnormal, description) pair.
C23_PredicatesReturnPairs ==
    (/\ pred_input.predicate \in {"check_kpi_configuration",
                                  "check_li_safeguards",
                                  "check_li_inventory_consistency"}
     /\ pred_result # NoPair)
        => pred_result.status = "returned"

\* C24: called with the default check set, the line item tool reports
\* every line item whose Frequency Enabled is False, with a description of
\* the safeguards check that contains "Frequency capping (disabled)".
C24_DisabledCappingReported ==
    (/\ pred_input.predicate = "detect_line_item_anomalies"
     /\ det_output # NoOutput
     /\ pred_input.row["Frequency Enabled"] = Bool(FALSE))
        => /\ det_output.status = "success"
           /\ \E i \in 1..Len(det_output.anomalies) :
                "safeguards"
                    \in Range(det_output.anomalies[i].anomalies_description)
           /\ "Frequency capping (disabled)"
                  \in Range(check_li_safeguards(pred_input.row).description)

\* C25: on every campaign row with Campaign Goal KPI = "CTR" and Campaign
\* Goal KPI Value = 0.8, whatever the other fields, check_kpi_configuration
\* returns is_abnormal = true and a description citing the 0.1%-0.5% range.
C25_CtrOutOfRangeCited ==
    (/\ pred_input.predicate = "check_kpi_configuration"
     /\ pred_result # NoPair
     /\ pred_input.row["Campaign Goal KPI"] = Str(<<"CTR">>)
     /\ pred_input.row["Campaign Goal KPI Value"] = Num(8))
        => /\ pred_result.status = "returned"
           /\ pred_result.is_abnormal
           /\ "% is outside typical range (0.1%-0.5%);"
                  \in Range(pred_result.description)

\* C26: check_cpm_capping finds a row normal whenever Kpi Type is not CPM;
\* when Kpi Type is CPM it finds the row abnormal iff Kpi Value is missing,
\* not a number, zero or above the ceiling of 5.0, and in the last case the
\* description holds both the value and the ceiling.
C26_CpmCapping ==
    (pred_input.predicate = "check_cpm_capping" /\ pred_result # NoPair)
        => LET kpi_type == pred_input.row["Kpi Type"]
               kpi_value == pred_input.row["Kpi Value"]
               missing == kpi_value \in {Missing, NaN}
               non_numeric == kpi_value \in {Str(<<"abc">>), Str(<<>>)}
               zero == kpi_value \in {Num(0), Str(<<"0">>)}
               above == kpi_value \in {Num(75), Str(<<"7.5">>)}
           IN  /\ pred_result.status = "returned"
               /\ kpi_type # Str(<<"CPM">>) => ~pred_result.is_abnormal
               /\ kpi_type = Str(<<"CPM">>)
                    => /\ pred_result.is_abnormal
                          <=> (missing \/ non_numeric \/ zero \/ above)
                       /\ above => {"7.5", "5.0"}
                                     \subseteq Range(pred_result.description)

\* A cap of 7.5 under a CPM KPI is reported with the value and the ceiling.
C26_Witness ==
    /\ pred_input.predicate = "check_cpm_capping"
    /\ pred_input.row["Kpi Type"] = Str(<<"CPM">>)
    /\ pred_input.row["Kpi Value"] = Num(75)
    /\ pred_result.is_abnormal
    /\ "7.5" \in Range(pred_result.description)

\* The normalizer has handled the table of norm_input.
Handled ==
    norm_input.call = "_handle_dataframe_result" /\ norm_result # NoModel

MoreRows(n) == "... +" \o ToString(n) \o " more rows"

MoreColumns(n) == "... +" \o ToString(n) \o " more columns"

\* C28 as stated: for every table of R rows and C columns the preview shows
\* at most 10 rows and 10 columns, has a "+N more rows" line iff R > 10,
\* with N = R - 10, and a "+N more columns" line iff C > 10, with
\* N = C - 10.
C28_PreviewOfEveryTable ==
    (norm_input.call = "_format_dataframe_for_display"
       /\ norm_result # NoModel)
        => LET R == norm_input.df.nrows
               C == Cardinality(norm_input.df.columns)
               shown == norm_result.display_data
               info == Range(shown.truncation_info)
           IN  /\ shown.rows <= 10 /\ shown.columns <= 10
               /\ \A n \in 0..(MaxSide + 1) :
                    /\ MoreRows(n) \in info <=> (R > 10 /\ n = R - 10)
                    /\ MoreColumns(n) \in info <=> (C > 10 /\ n = C - 10)

\* C28 as amended: the same for every table with at least one row and one
\* column; a table without rows or without columns is rendered as
\* "*(Empty DataFrame)*" with no such line.
C28_PreviewOfNonEmptyTable ==
    (norm_input.call = "_format_dataframe_for_display"
       /\ norm_result # NoModel)
        => LET R == norm_input.df.nrows
               C == Cardinality(norm_input.df.columns)
               shown == norm_result.display_data
               info == Range(shown.truncation_info)
           IN  IF R = 0 \/ C = 0
               THEN shown.text = "*(Empty DataFrame)*" /\ info = {}
               ELSE /\ shown.rows = (IF R > 10 THEN 10 ELSE R)
                    /\ shown.columns = (IF C > 10 THEN 10 ELSE C)
                    /\ \A n \in 0..(MaxSide + 1) :
                         /\ MoreRows(n) \in info <=> (R > 10 /\ n = R - 10)
                         /\ MoreColumns(n) \in info
                              <=> (C > 10 /\ n = C - 10)

\* A table of 12 rows and 11 columns is shown as 10 by 10 with both lines.
C28_Witness ==
    /\ norm_input.call = "_format_dataframe_for_display"
    /\ norm_input.df.nrows = 12
    /\ Cardinality(norm_input.df.columns) = 11
    /\ norm_result.display_data.truncation_info
         = <<"... +2 more rows", "... +1 more columns">>

\* summarize_result_node: "Small DataFrames (<50 cells) are displayed
\* directly, large ones uploaded to GCS".
DocumentedCellThreshold == 50

\* C29: a table is uploaded exactly when its cell count reaches the
\* large-table threshold, documented as 50 cells; below it the table is
\* shown inline with no download link and no upload; the truncated preview
\* is rendered in both cases.
C29_UploadAtThreshold ==
    (Handled /\ norm_result.type = "dataframe"
       /\ norm_result.status # "empty")
        => LET df == norm_input.df
               cell_count == df.nrows * Cardinality(df.columns)
           IN  /\ norm_result.uploads = 1
                    <=> cell_count >= DocumentedCellThreshold
               /\ cell_count < DocumentedCellThreshold
                    => norm_result.download_links = <<>>
               /\ norm_result.display_data.text = "table"

\* C30: when the upload of a table fails, summarize_result still completes:
\* the table's model has status partial_success, no download link, the
\* truncated preview and a message carrying the failure text, and the turn
\* goes on to final_response.
C30_UploadFailureIsPartialSuccess ==
    [][ (/\ pc = "summarize_result"
         /\ state.result.type = "DataFrame"
         /\ last_upload # last_upload'
         /\ last_upload' = "failed")
          => /\ pc' = "final_response"
             /\ state'.processed_result.status = "partial_success"
             /\ state'.download_links = 0
             /\ state'.processed_result.display_data.text = "table"
             /\ state'.processed_result.display_data.rows
                    = state.result.nrows
             /\ "Upload failed: reason"
                    \in Range(state'.processed_result.message) ]_vars

\* A turn whose upload failed stands at final_response with the partial
\* model in its state.
C30_Witness ==
    /\ pc = "final_response"
    /\ last_upload = "failed"
    /\ state.result.type = "DataFrame"
    /\ state.processed_result.status = "partial_success"

\* C32: only one evaluation runs at a time: under every interleaving of
\* /evaluation/run requests, previews and start_evaluation calls, no two
\* pipelines are processing test cases together.
C32_OneEvaluationAtATime ==
    Cardinality({r \in EvalRequests : eval_pc[r] = "processing"}) <= 1
\* The step is a completed reset of the identity key: no request moves and
\* the identity is among the cleared ones afterwards.
Reset(key) ==
    /\ chat' = chat
    /\ preferences' = preferences
    /\ key \in conv_cleared'
    /\ conv_cleared' = conv_cleared \cup {key}

\* C33: once delete_all_conversations has completed for a (user, partner),
\* loading that conversation returns no messages until a later turn of that
\* identity is processed, and the reset leaves the conversations stored for
\* every other (user, partner) as they were.
C33_ResetClearsOneIdentity ==
    [][/\ \A key \in conv_cleared' :
            load_conversation(conversations'[key], USE_POSTGRES_STORAGE')
               = <<>>
       /\ \A key \in ConvKeys :
            Reset(key) =>
               \A k \in ConvKeys \ {key} :
                  conversations'[k] = conversations[k]]_vars

\* C34: the conversation-history entry point returns all persisted messages
\* of the (user, partner) conversation, each as often as it was exchanged,
\* in chronological order.
C34_HistoryComplete ==
    \A key \in ConvKeys :
       get_conversation_history(conversations[key], USE_POSTGRES_STORAGE)
          = extend(conversations[key])

RECURSIVE sum(_)
sum(numbers) ==
    IF numbers = <<>> THEN 0 ELSE Head(numbers) + sum(Tail(numbers))

\* A mapping or list with at least one member was normalized.
Summarized == norm_summary # NoSummary /\ norm_members.items # <<>>

\* The links of the processed items, one after the other.
LinksOf(processed_items) ==
    extend([i \in 1..Len(processed_items) |->
               processed_items[i].download_links])

C37_OneAssistantMessage ==
    [][/\ pc' = "END" =>
            /\ Len(state'.messages) = Len(FreshState.messages) + 1
            /\ state'.messages[Len(state'.messages)].type = "ai"
       /\ pc \in Nodes =>
            /\ Len(state'.messages) >= Len(state.messages)
            /\ SubSeq(state'.messages, 1, Len(state.messages))
                  = state.messages
            /\ state'.messages[1] = FreshState.messages[1]]_vars

\* A turn ended by final_response.
C37_Witness ==
    /\ pc = "END"
    /\ "final_response" \in visited
    /\ Len(state.messages) = 2

\* C38: under every interleaving of concurrent turns, an anomaly detection
\* tool invoked by a turn reads the tables loaded for that turn's own
\* (user, partner): never those loaded by another turn, never a global that
\* another turn's clean-up set to None.
C38_ToolsReadOwnTables ==
    \A r \in Runners :
       runner[r].observed \in {Unread, runner[r].key}

\* The normalizer reports the execution result as status = error.
ReportedAsError(result) ==
    /\ result.type = "DataFrame"
    /\ \A upload \in UploadOutcomes :
          _handle_dataframe_result(result, upload).status = "error"

\* C39: exec_code_node and the normalizer agree on what a failed execution
\* is: when code was run, execution_error is set and a retry is counted
\* exactly when the normalizer reports the result as status = error, and a
\* result table the normalizer takes as data is never a failed execution.
C39_FailureAgreed ==
    [][(pc = "exec_code" /\ pc' \notin {pc, "raised"} /\ Truthy(state.code))
         => IF ReportedAsError(state'.result)
            THEN /\ Truthy(state'.execution_error)
                 /\ state'.retry_count = state.retry_count + 1
            ELSE /\ state'.execution_error = None
                 /\ state'.retry_count = state.retry_count]_vars

\* C40: check selection is idempotent and order-insensitive in the
\* requested list: for every entity type, a requested list with the same
\* identifiers, repeated or in another order, yields the same result rows
\* with the same descriptions.
C40_SelectionBySet ==
    det_result # NoResult =>
       \A c \in SeqsUpTo(RequestIds(det_input.entity), MaxRequested) :
          Range(c) = Range(det_input.check_types) =>
             selective_detection([det_input EXCEPT !.check_types = c])
                = det_result

====
